---- MODULE Spec2Model ----
(***************************************************************************)
(* The parallel job-orchestration engine of the ELT framework:             *)
(*   - generic_transfer_orchestrator: one record through                   *)
(*     transfer -> (cleanup on failure) -> alert, returning an envelope;   *)
(*   - generic_worker.main_worker: the process that runs one job;          *)
(*   - run_generic_parallel_jobs: the dispatcher that fans a batch out to  *)
(*     worker processes, waits for them and aggregates their result files; *)
(*   - audit_counts: the reconciler that compares the source count and the *)
(*     target count of one record.                                         *)
(*                                                                         *)
(* Four specifications share the state:                                    *)
(*   SpecOrch  one call of generic_transfer_orchestrator, step by step,    *)
(*             one step per collaborator call;                             *)
(*   Spec      one dispatch of a batch, with its worker processes;         *)
(*   SpecAudit one call of audit_counts, step by step;                     *)
(*   SpecWorker one worker process, step by step.                          *)
(***************************************************************************)
EXTENDS Integers, Sequences, FiniteSets, TLC

VARIABLES
    orch,     \* the frame of the running generic_transfer_orchestrator call
    disp,     \* the frame of the dispatcher: its arguments, position and locals
    fs,       \* the batch working directory: its sub-directories and result files
    procs,    \* the worker processes, by job number
    audit,    \* the frame of the running audit_counts call
    worker,   \* the frame of a worker process followed step by step
    ctl       \* the tracking table and the running update_audit_details calls

vars == <<orch, disp, fs, procs, audit, worker, ctl>>

-----------------------------------------------------------------------------
(* Python values held in record fields and envelopes: None, a string, or   *)
(* an error_dict.                                                          *)

V_None == [kind |-> "none", s |-> "", e |-> <<>>]
V_Str(x) == [kind |-> "str", s |-> x, e |-> <<>>]
V_Err(d) == [kind |-> "dict", s |-> "", e |-> d]

(* f"error{n:02d}" *)
ErrKey(n) == "error" \o (IF n < 10 THEN "0" \o ToString(n) ELSE ToString(n))

(* error_dict[key] = f"{tag}: {msg}" on an insertion-ordered dict: a key   *)
(* already present keeps its place and gets the new text, a new key goes   *)
(* to the end.                                                             *)
DictSet(d, key, tag, msg) ==
    IF \E i \in 1..Len(d) : d[i].key = key
    THEN [i \in 1..Len(d) |->
            IF d[i].key = key THEN [key |-> key, tag |-> tag, msg |-> msg] ELSE d[i]]
    ELSE Append(d, [key |-> key, tag |-> tag, msg |-> msg])

(* record.update(details); return record *)
update_record_values(record, details) ==
    [k \in (DOMAIN record) \cup (DOMAIN details) |->
        IF k \in DOMAIN details THEN details[k] ELSE record[k]]

Field(record, k) == IF k \in DOMAIN record THEN record[k] ELSE V_None

-----------------------------------------------------------------------------
(* get_timezone: config["timezone"] looked up and resolved by pytz.        *)
(*   "<missing>"     no "timezone" key: KeyError, caught, UTC              *)
(*   "Mars/Olympus"  a name pytz does not know: UnknownTimeZoneError,      *)
(*                   caught, UTC                                           *)
(*   "Asia/Kolkata"  a zone pytz knows                                     *)
(*   "<not-a-name>"  config is not a mapping, or the value is not a        *)
(*                   string: TypeError / AttributeError, which neither     *)
(*                   except clause names                                   *)

TimezoneSettings == {"<missing>", "Mars/Olympus", "Asia/Kolkata", "<not-a-name>"}

get_timezone(setting) ==
    CASE setting = "<missing>"    -> [raised |-> FALSE, tz |-> "UTC"]
      [] setting = "Mars/Olympus" -> [raised |-> FALSE, tz |-> "UTC"]
      [] setting = "<not-a-name>" -> [raised |-> TRUE, tz |-> ""]
      [] OTHER                    -> [raised |-> FALSE, tz |-> setting]

-----------------------------------------------------------------------------
(* format_duration, on a duration given as whole seconds and a fraction in *)
(* microseconds (the resolution of timedelta.total_seconds()):             *)
(* duration_sec = d.sec + d.us / 10^6, with 0 <= d.us < 10^6; d.absent     *)
(* stands for None.                                                        *)

DAY_IN_SECONDS == 86400
HOUR_IN_SECONDS == 3600
MINUTE_IN_SECONDS == 60

(* int(round(x * 1000)) for the fraction x = frac_us / 10^6: round half to *)
(* even, as round() does.                                                  *)
RoundMillis(frac_us) ==
    LET q == frac_us \div 1000
        r == frac_us % 1000
    IN  IF r > 500 \/ (r = 500 /\ q % 2 = 1) THEN q + 1 ELSE q

Part(n, unit) == IF n > 0 THEN ToString(n) \o unit ELSE ""

Seconds(sec, us) == [absent |-> FALSE, sec |-> sec, us |-> us]

format_duration(d) ==
    IF d.absent THEN ""
    ELSE IF d.sec = 0 /\ d.us = 0 THEN "0s"
    ELSE LET seconds_int   == d.sec
             milliseconds  == RoundMillis(d.us)
             days          == seconds_int \div DAY_IN_SECONDS
             rem1          == seconds_int % DAY_IN_SECONDS
             hours         == rem1 \div HOUR_IN_SECONDS
             rem2          == rem1 % HOUR_IN_SECONDS
             minutes       == rem2 \div MINUTE_IN_SECONDS
             seconds       == rem2 % MINUTE_IN_SECONDS
             parts         == Part(days, "d") \o Part(hours, "h") \o Part(minutes, "m")
                                \o Part(seconds, "s") \o Part(milliseconds, "ms")
         IN  IF parts = "" THEN "0s" ELSE parts

-----------------------------------------------------------------------------
(* generic_transfer_orchestrator                                           *)

Key(process_type, suffix) == process_type \o suffix

Status(record, process_type) == Field(record, Key(process_type, "_status")).s

(* One entry of the call log: which collaborator was called, how the call  *)
(* ended, and the record's <process_type>_status it was handed.            *)
Call(fn, out, s) == [fn |-> fn, out |-> out, status |-> Status(s.record, s.process_type)]

NoEnvelope == [returned |-> FALSE, continue_dag_run |-> FALSE, error |-> V_None]

(* The StateStore calls.  update_record_details_in_drive_table is the      *)
(* placeholder of sf_drive_tbl_scripts.py, where the MERGE into the drive  *)
(* table is to go; rest_record_details_in_drive_table is imported from the *)
(* same module, which does not define it, and is taken to be the same      *)
(* persist(record) call.  Either returns, or raises when the store cannot  *)
(* be reached.                                                             *)
update_record_details_in_drive_table(out) ==
    [fn |-> "update_record_details_in_drive_table", raised |-> out # "ok"]

rest_record_details_in_drive_table(out) ==
    [fn |-> "rest_record_details_in_drive_table", raised |-> out # "ok"]

(* lines 45-48: the frame on entry *)
OrchEnter(config, record, process_type, duration) ==
    [pc             |-> "get_timezone",
     config         |-> config,
     process_type   |-> process_type,
     record         |-> record,
     duration       |-> duration,
     tz             |-> "",
     process_failed |-> FALSE,
     error_count    |-> 0,
     error_dict     |-> <<>>,
     calls          |-> <<>>,
     pending        |-> FALSE,
     escaped        |-> "",
     result         |-> NoEnvelope]

(* lines 50-51, before the try statement *)
StepGetTimezone(s) ==
    LET r == get_timezone(s.config)
    IN  IF r.raised
        THEN [s EXCEPT !.pc = "raised", !.escaped = "get_timezone"]
        ELSE [s EXCEPT !.pc = "stamp_running", !.tz = r.tz]

(* a variant that runs the cleanup whatever the try statement decided *)
Finally_always_cleanup(s) == [s EXCEPT !.pc = "cleanup"]

(* where control goes when the try statement is left: line 82 *)
Finally(s) == [s EXCEPT !.pc = IF s.process_failed THEN "cleanup" ELSE "finalize"]

(* error_count += 1; error_dict[f"error{error_count:02d}"] = f"{tag}: {e}" *)
(* a variant that files an entry without counting it *)
AddError_uncounted(s, tag, msg) ==
    [s EXCEPT !.error_dict = DictSet(s.error_dict, ErrKey(s.error_count + 1), tag, msg)]

AddError(s, tag, msg) ==
    [s EXCEPT !.error_count = s.error_count + 1,
              !.error_dict = DictSet(s.error_dict, ErrKey(s.error_count + 1), tag, msg)]

(* a variant that goes on to the transfer whether or not the RUNNING stamp *)
(* could be persisted                                                      *)
StepStampRunning_transfer_anyway(s, out) ==
    LET p  == s.process_type
        details == (Key(p, "_status") :> V_Str("RUNNING"))
                @@ (Key(p, "_started_at") :> V_Str("t0@" \o s.tz))
                @@ (Key(p, "_ended_at") :> V_None)
                @@ (Key(p, "_duration_str") :> V_None)
                @@ (Key(p, "_error") :> V_None)
        s1 == [s EXCEPT !.record = update_record_values(s.record, details)]
    IN  [s1 EXCEPT !.calls = Append(s1.calls,
                                    Call("update_record_details_in_drive_table", out, s1)),
                   !.pc = "transfer"]

(* lines 53-63 and, when the persist raises, the handler of lines 74-78 *)
StepStampRunning(s, out) ==
    LET p  == s.process_type
        details == (Key(p, "_status") :> V_Str("RUNNING"))
                @@ (Key(p, "_started_at") :> V_Str("t0@" \o s.tz))
                @@ (Key(p, "_ended_at") :> V_None)
                @@ (Key(p, "_duration_str") :> V_None)
                @@ (Key(p, "_error") :> V_None)
        s1 == [s EXCEPT !.record = update_record_values(s.record, details)]
        persist == update_record_details_in_drive_table(out)
        s2 == [s1 EXCEPT !.calls = Append(s1.calls, Call(persist.fn, out, s1))]
    IN  IF ~persist.raised
        THEN [s2 EXCEPT !.pc = "transfer"]
        ELSE Finally(AddError([s2 EXCEPT !.process_failed = TRUE],
                              "Critical Error", "store unreachable"))

(* lines 66-72; a BaseException passes both except clauses and is pending  *)
(* while the finally block runs                                            *)
StepTransfer(s, out) ==
    LET s1 == [s EXCEPT !.calls = Append(s.calls, Call("transfer_func", out, s))]
    IN  CASE out = "ok"   -> Finally(s1)
          [] out = "exc"  -> Finally(AddError([s1 EXCEPT !.process_failed = TRUE],
                                              "Transfer Error", "Simulated transfer failure"))
          [] out = "base" -> Finally([s1 EXCEPT !.pending = TRUE])

(* a variant that files the cleanup error without counting it, so that it *)
(* takes the key of the error before it                                   *)
StepCleanup_same_key(s, out) ==
    LET s1 == [s EXCEPT !.calls = Append(s.calls, Call("cleanup_func", out, s)),
                        !.pc = "finalize"]
    IN  IF out = "ok" THEN s1
        ELSE [s1 EXCEPT !.error_dict = DictSet(s.error_dict, ErrKey(s.error_count),
                                               "Cleanup Error", "Cannot connect to archive")]

(* lines 82-90 *)
StepCleanup(s, out) ==
    LET s1 == [s EXCEPT !.calls = Append(s.calls, Call("cleanup_func", out, s)),
                        !.pc = "finalize"]
    IN  IF out = "ok" THEN s1
        ELSE AddError(s1, "Cleanup Error", "Cannot connect to archive")

(* a variant that hands back the error collection also after a success *)
Return_error_always(s) ==
    [s EXCEPT !.pc = "returned", !.pending = FALSE,
              !.result = [returned |-> TRUE,
                          continue_dag_run |-> ~s.process_failed,
                          error |-> V_Err(s.error_dict)]]

(* lines 123-126: a return inside finally discards a pending exception *)
Return(s) ==
    [s EXCEPT !.pc = "returned", !.pending = FALSE,
              !.result = [returned |-> TRUE,
                          continue_dag_run |-> ~s.process_failed,
                          error |-> IF ~s.process_failed THEN V_None
                                    ELSE V_Err(s.error_dict)]]

(* an exception leaving the finally block replaces the pending one *)
Escape(s, what) == [s EXCEPT !.pc = "raised", !.pending = FALSE, !.escaped = what]

(* a variant that stamps COMPLETED when the cleanup has made up for the     *)
(* failure                                                                 *)
StepFinalize_completed_after_cleanup(s, out) ==
    LET p == s.process_type
        stamp_failed == s.process_failed /\ Len(s.error_dict) >= 2
        completed == (Key(p, "_status") :> V_Str("COMPLETED"))
                  @@ (Key(p, "_ended_at") :> V_Str("t1@" \o s.tz))
                  @@ (Key(p, "_duration_str") :> V_Str(format_duration(s.duration)))
        failed    == (Key(p, "_status") :> V_Str("FAILED"))
                  @@ (Key(p, "_ended_at") :> V_Str("t1@" \o s.tz))
                  @@ (Key(p, "_duration_str") :> V_Str(format_duration(s.duration)))
                  @@ (Key(p, "_error") :> V_Err(s.error_dict))
        s1 == [s EXCEPT !.record = update_record_values(s.record,
                                      IF stamp_failed THEN failed ELSE completed)]
        persist == IF s.process_failed THEN rest_record_details_in_drive_table(out)
                   ELSE update_record_details_in_drive_table(out)
        s2 == [s1 EXCEPT !.calls = Append(s1.calls, Call(persist.fn, out, s1))]
    IN  IF persist.raised THEN Escape(s2, persist.fn)
        ELSE IF s.process_failed THEN [s2 EXCEPT !.pc = "alert"]
        ELSE Return(s2)

(* lines 93-104 (COMPLETED) and 93-94, 105-114 (FAILED): the terminal      *)
(* stamp and its persist, which no try statement guards                    *)
StepFinalize(s, out) ==
    LET p == s.process_type
        completed == (Key(p, "_status") :> V_Str("COMPLETED"))
                  @@ (Key(p, "_ended_at") :> V_Str("t1@" \o s.tz))
                  @@ (Key(p, "_duration_str") :> V_Str(format_duration(s.duration)))
        failed    == (Key(p, "_status") :> V_Str("FAILED"))
                  @@ (Key(p, "_ended_at") :> V_Str("t1@" \o s.tz))
                  @@ (Key(p, "_duration_str") :> V_Str(format_duration(s.duration)))
                  @@ (Key(p, "_error") :> V_Err(s.error_dict))
        s1 == [s EXCEPT !.record = update_record_values(s.record,
                                      IF s.process_failed THEN failed ELSE completed)]
        persist == IF s.process_failed THEN rest_record_details_in_drive_table(out)
                   ELSE update_record_details_in_drive_table(out)
        s2 == [s1 EXCEPT !.calls = Append(s1.calls, Call(persist.fn, out, s1))]
    IN  IF persist.raised THEN Escape(s2, persist.fn)
        ELSE IF s.process_failed THEN [s2 EXCEPT !.pc = "alert"]
        ELSE Return(s2)

(* a variant that returns without sending the alert *)
StepAlert_no_alert(s, out) == Return(s)

(* a variant that files a failed alert as one more error *)
StepAlert_alert_error(s, out) ==
    LET s1 == [s EXCEPT !.calls = Append(s.calls, Call("send_mail_alert", out, s))]
    IN  Return(IF out = "ok" THEN s1 ELSE AddError(s1, "Alert Error", "SMTP unreachable"))

(* lines 116-126 *)
StepAlert(s, out) ==
    Return([s EXCEPT !.calls = Append(s.calls, Call("send_mail_alert", out, s))])

-----------------------------------------------------------------------------
(* Inputs of one orchestrator call                                         *)

ProcessTypes == {"src_to_stg", "stg_to_trg"}

(* records as a caller hands them over: fresh, carrying the fields of an   *)
(* earlier phase, or carrying the fields of an earlier failed run          *)
FreshRecord == ("id" :> V_Str("record_001"))
StagedRecord == FreshRecord
             @@ ("src_to_stg_status" :> V_Str("COMPLETED"))
             @@ ("src_to_stg_error" :> V_None)
RerunRecord == ("id" :> V_Str("record_fail_002"))
            @@ ("src_to_stg_status" :> V_Str("FAILED"))
            @@ ("src_to_stg_error" :>
                  V_Err(<<[key |-> "error01", tag |-> "Transfer Error", msg |-> "earlier run"]>>))
InputRecords == {FreshRecord, StagedRecord, RerunRecord}

(* elapsed wall time of a run *)
Durations == {Seconds(0, 0), Seconds(0, 400), Seconds(1, 999600), Seconds(90061, 500000)}

Outcomes == {"ok", "exc"}
TransferOutcomes == {"ok", "exc", "base"}

Idle == [OrchEnter("<missing>", FreshRecord, "src_to_stg", Seconds(0, 0)) EXCEPT !.pc = "idle"]

(* The step the call takes from frame s, given how each collaborator call *)
(* ends                                                                    *)
OrchStep(s, o) ==
    CASE s.pc = "get_timezone"  -> StepGetTimezone(s)
      [] s.pc = "stamp_running" -> StepStampRunning(s, o.persist1)
      [] s.pc = "transfer"      -> StepTransfer(s, o.transfer)
      [] s.pc = "cleanup"       -> StepCleanup(s, o.cleanup)
      [] s.pc = "finalize"      -> StepFinalize(s, o.persist2)
      [] s.pc = "alert"         -> StepAlert(s, o.alert)

(* The whole call: its steps up to the return or the escaping exception *)
RECURSIVE RunOrch(_, _)
RunOrch(s, o) ==
    IF s.pc \in {"returned", "raised"} THEN s ELSE RunOrch(OrchStep(s, o), o)

-----------------------------------------------------------------------------
(* The example pipelines: src_to_stg_orchestrator.py, stg_to_trg_orchestrator.py *)

SrcToStg == [transfer_func |-> "framework.orchestration.src_to_stg_orchestrator.src_to_stg_transfer",
             cleanup_func  |-> "framework.orchestration.src_to_stg_orchestrator.src_to_stg_cleanup",
             process_type  |-> "src_to_stg"]
StgToTrg == [transfer_func |-> "framework.orchestration.stg_to_trg_orchestrator.stg_to_trg_transfer",
             cleanup_func  |-> "framework.orchestration.stg_to_trg_orchestrator.stg_to_trg_cleanup",
             process_type  |-> "stg_to_trg"]
(* the references of the __main__ block of run_generic_parallel_jobs.py;   *)
(* the repository has no module framework.demo_funcs                       *)
Demo == [transfer_func |-> "framework.demo_funcs.demo_transfer",
             cleanup_func  |-> "framework.demo_funcs.demo_cleanup",
             process_type  |-> "src_to_stg"]

(* dynamic_import: importlib.import_module + getattr succeed for these *)
Importable == {SrcToStg.transfer_func, SrcToStg.cleanup_func,
               StgToTrg.transfer_func, StgToTrg.cleanup_func}

(* src_to_stg_transfer / stg_to_trg_transfer raise when "fail" occurs in   *)
(* the lower-cased record id; these are the ids of the model that have it  *)
IdsWithFail == {"record_fail_002"}
ExampleTransfer(record) ==
    IF Field(record, "id").s \in IdsWithFail THEN "exc" ELSE "ok"

-----------------------------------------------------------------------------
(* generic_worker.py                                                       *)

Missing == [kind |-> "missing", continue_dag_run |-> FALSE, error |-> V_None]
Partial == [kind |-> "partial", continue_dag_run |-> FALSE, error |-> V_None]
Json(continue, error) == [kind |-> "json", continue_dag_run |-> continue, error |-> error]

(* write_json_file: open(file_path, 'w') then json.dump.                   *)
(*   "ok"         the whole text is written                                *)
(*   "fail_open"  open raises (no directory, no permission): file as it was *)
(*   "fail_dump"  the write stops part-way: a truncated text is left       *)
write_json_file(old, data, out, dir_ok) ==
    CASE ~dir_ok \/ out = "fail_open" -> [file |-> old, raised |-> TRUE]
      [] out = "fail_dump"            -> [file |-> Partial, raised |-> TRUE]
      [] OTHER                        -> [file |-> data, raised |-> FALSE]

(* the keys of a job message; main_worker reads the first four with       *)
(* data[key] and process_type with data.get                                *)
MessageKeys == {"config", "record", "transfer_func", "cleanup_func", "process_type"}
RequiredKeys == {"config", "record", "transfer_func", "cleanup_func"}

(* a job message as the worker finds it on its stdin: valid when the text  *)
(* is JSON, has the keys it holds                                          *)
NoMessage == [valid |-> FALSE, has |-> {}, config |-> "", record |-> ("id" :> V_None),
              transfer_func |-> "", cleanup_func |-> "", process_type |-> ""]

(* lines 56-66: the handler of main_worker *)
WorkerFailure(file, e, env, dir_ok) ==
    LET minimal == Json(FALSE, V_Err(<<[key |-> "error01", tag |-> "Critical Worker Failure",
                                        msg |-> e]>>))
        w == write_json_file(file, minimal, env.write2, dir_ok)
    IN  [file |-> w.file, exit |-> 1]

(* The frame of a worker process: its position, the job message on its    *)
(* stdin, whether the directory of result_path exists, the result file,    *)
(* what was raised in the try block of main_worker, whether the            *)
(* orchestrator was called and the calls it made, the envelope it          *)
(* returned, the writes to result_path attempted, and the exit code.       *)
WorkerEnter(msg, dir_ok) ==
    [pc       |-> "import",
     msg      |-> msg,
     dir_ok   |-> dir_ok,
     file     |-> Missing,
     fault    |-> "",
     invoked  |-> FALSE,
     calls    |-> <<>>,
     envelope |-> NoEnvelope,
     writes   |-> <<>>,
     exit     |-> 0]

(* an exception raised in the try block of main_worker: on to line 56 *)
Fail(w, e) == [w EXCEPT !.pc = "handler", !.fault = e]

(* sys.exit(code) *)
Exit(w, code) == [w EXCEPT !.pc = "exited", !.exit = code]

(* lines 1-7 and 69-73: the imports of the module, before main_worker *)
StepImport(w, env) ==
    IF env.startup = "fail" THEN Exit([w EXCEPT !.fault = "import"], 1)
    ELSE [w EXCEPT !.pc = "read"]

(* lines 25-34 *)
StepRead(w) ==
    IF ~w.msg.valid THEN Fail(w, "json.loads")
    ELSE IF ~(RequiredKeys \subseteq w.msg.has) THEN Fail(w, "KeyError")
    ELSE [w EXCEPT !.pc = "resolve"]

(* a variant that leaves the lookup of the references to the first call *)
StepResolve_unchecked(w) == [w EXCEPT !.pc = "orchestrate"]

(* lines 36-37 *)
StepResolve(w) ==
    IF {w.msg.transfer_func, w.msg.cleanup_func} \subseteq Importable
    THEN [w EXCEPT !.pc = "orchestrate"]
    ELSE Fail(w, "dynamic_import")

(* lines 34 and 39-49: the call of generic_transfer_orchestrator with the  *)
(* example transfer and cleanup functions                                  *)
StepOrchestrate(w, env) ==
    LET process_type == IF "process_type" \in w.msg.has THEN w.msg.process_type
                        ELSE "src_to_stg"
        o == [persist1 |-> env.persist1, transfer |-> ExampleTransfer(w.msg.record),
              cleanup |-> "ok", persist2 |-> env.persist2, alert |-> env.alert]
        f == RunOrch(OrchEnter(w.msg.config, w.msg.record, process_type,
                               Seconds(1, 999600)), o)
        w1 == [w EXCEPT !.invoked = TRUE, !.calls = f.calls]
    IN  IF f.pc = "raised" THEN Fail(w1, f.escaped)
        ELSE [w1 EXCEPT !.envelope = f.result, !.pc = "write"]

(* line 51 *)
StepWrite(w, env) ==
    LET r == write_json_file(w.file, Json(w.envelope.continue_dag_run, w.envelope.error),
                             env.write1, w.dir_ok)
        w1 == [w EXCEPT !.file = r.file,
                        !.writes = Append(w.writes, [data |-> "envelope", raised |-> r.raised])]
    IN  IF r.raised THEN Fail(w1, "write_json_file") ELSE [w1 EXCEPT !.pc = "log_finished"]

(* lines 52-54: the last logger.info is inside the try block; SystemExit   *)
(* is no Exception and passes the handler                                  *)
StepLogFinished(w, env) ==
    IF env.log = "exc" THEN Fail(w, "logger.info") ELSE Exit(w, 0)

(* a variant whose handler exits without writing anything *)
StepHandler_no_write(w, env) == Exit(w, 1)

(* lines 56-66 *)
StepHandler(w, env) ==
    LET minimal == Json(FALSE, V_Err(<<[key |-> "error01", tag |-> "Critical Worker Failure",
                                        msg |-> w.fault]>>))
        r == write_json_file(w.file, minimal, env.write2, w.dir_ok)
    IN  Exit([w EXCEPT !.file = WorkerFailure(w.file, w.fault, env, w.dir_ok).file,
                       !.writes = Append(w.writes, [data |-> "minimal", raised |-> r.raised])],
             WorkerFailure(w.file, w.fault, env, w.dir_ok).exit)

(* the process is killed: nothing more is written; a kill during a write   *)
(* leaves a truncated file                                                 *)
Killed(w, mid_write) ==
    [w EXCEPT !.pc = "exited", !.exit = -9,
              !.file = IF mid_write /\ w.pc \in {"write", "handler"} /\ w.dir_ok
                       THEN Partial ELSE w.file]

WorkerStep(w, env) ==
    CASE w.pc = "import"       -> StepImport(w, env)
      [] w.pc = "read"         -> StepRead(w)
      [] w.pc = "resolve"      -> StepResolve(w)
      [] w.pc = "orchestrate"  -> StepOrchestrate(w, env)
      [] w.pc = "write"        -> StepWrite(w, env)
      [] w.pc = "log_finished" -> StepLogFinished(w, env)
      [] w.pc = "handler"      -> StepHandler(w, env)

RECURSIVE RunWorker(_, _)
RunWorker(w, env) == IF w.pc = "exited" THEN w ELSE RunWorker(WorkerStep(w, env), env)

(* lines 22-66: main_worker on the job message msg, in the environment env *)
(* (how each call that can fail ends); dir_ok: the job's sub-directory     *)
(* exists.  Ends in the result file left behind and the exit code.         *)
main_worker(msg, env, dir_ok) ==
    LET w == RunWorker([WorkerEnter(msg, dir_ok) EXCEPT !.pc = "read"], env)
    IN  [file |-> w.file, exit |-> w.exit]

(* The worker process as the operating system sees it: the interpreter may *)
(* fail before main_worker runs (the imports of lines 1-7), and the        *)
(* process may be killed, also while it writes.                            *)
worker_process(msg, env, dir_ok) ==
    CASE env.startup = "fail"      -> [file |-> Missing, exit |-> 1]
      [] env.killed = "early"      -> [file |-> Missing, exit |-> -9]
      [] env.killed = "mid_write"  -> [file |-> IF dir_ok THEN Partial ELSE Missing, exit |-> -9]
      [] OTHER                     -> main_worker(msg, env, dir_ok)

Nominal == [startup |-> "ok", killed |-> "no", persist1 |-> "ok", persist2 |-> "ok",
            alert |-> "ok", write1 |-> "ok", log |-> "ok", write2 |-> "ok"]

(* The environments a worker of a batch is run in: one for every way       *)
(* main_worker can end.                                                    *)
WorkerEnvs ==
    {Nominal,
     [Nominal EXCEPT !.startup = "fail"],
     [Nominal EXCEPT !.killed = "mid_write"],
     [Nominal EXCEPT !.persist1 = "exc"],
     [Nominal EXCEPT !.persist2 = "exc"],
     [Nominal EXCEPT !.persist2 = "exc", !.write2 = "fail_open"],
     [Nominal EXCEPT !.write1 = "fail_dump", !.write2 = "fail_dump"],
     [Nominal EXCEPT !.log = "exc"]}

(* the configs and records of a batch *)
DispatchConfigs == {"Asia/Kolkata", "<not-a-name>"}
BatchRecords == {FreshRecord, RerunRecord}

(* the ways each single call of a worker can end *)
WriteOutcomes == {"ok", "fail_open", "fail_dump"}
StepEnvs ==
    [startup : {"ok", "fail"}, killed : {"no"}, persist1 : Outcomes, persist2 : Outcomes,
     alert : Outcomes, write1 : WriteOutcomes, log : Outcomes, write2 : WriteOutcomes]

(* job messages a worker may find on its stdin: those the dispatcher       *)
(* sends, one with a cleanup reference that does not resolve, one without  *)
(* its process_type, one without its cleanup_func, and no message          *)
Message(config, record, refs, has) ==
    [valid         |-> TRUE,
     has           |-> has,
     config        |-> config,
     record        |-> record,
     transfer_func |-> refs.transfer_func,
     cleanup_func  |-> refs.cleanup_func,
     process_type  |-> refs.process_type]

HalfResolved == [SrcToStg EXCEPT !.cleanup_func = Demo.cleanup_func]

WorkerMessages ==
    {Message(c, r, refs, MessageKeys) :
        c \in DispatchConfigs, r \in BatchRecords,
        refs \in {SrcToStg, StgToTrg, Demo, HalfResolved}}
      \cup {Message("Asia/Kolkata", r, StgToTrg, MessageKeys \ {k}) :
              r \in BatchRecords, k \in {"process_type", "cleanup_func"}}
      \cup {NoMessage}

NoWorker == [WorkerEnter(NoMessage, FALSE) EXCEPT !.pc = "idle"]

-----------------------------------------------------------------------------
(* run_generic_parallel_jobs.py                                            *)

MaxJobs == 3
Jobs == 1..MaxJobs

(* f"job_{i+1:03d}", for the job numbers i+1 of the model *)
JobId(n) == "job_" \o (IF n < 10 THEN "00" ELSE IF n < 100 THEN "0" ELSE "") \o ToString(n)

(* a variant that names the sub-directory of a job after its record *)
JobSpec_by_record_id(n, record) ==
    LET record_id == IF "id" \in DOMAIN record THEN record["id"].s ELSE "unknown"
    IN  [id              |-> "job_" \o record_id,
         record_id       |-> record_id,
         result_path     |-> "job_" \o record_id \o "/result.json",
         stdout_log_path |-> "job_" \o record_id \o "/stdout.log",
         stderr_log_path |-> "job_" \o record_id \o "/stderr.log"]

(* lines 16-27: the job spec of record number n *)
JobSpec(n, record) ==
    [id              |-> JobId(n),
     record_id       |-> IF "id" \in DOMAIN record THEN record["id"].s ELSE "unknown",
     result_path     |-> JobId(n) \o "/result.json",
     stdout_log_path |-> JobId(n) \o "/stdout.log",
     stderr_log_path |-> JobId(n) \o "/stderr.log"]

(* a variant that hands every worker the first record of the batch *)
JobMessage_first_record(args, n) ==
    [valid         |-> TRUE,
     has           |-> MessageKeys,
     config        |-> args.config,
     record        |-> args.records[1],
     transfer_func |-> args.transfer_func_path,
     cleanup_func  |-> args.cleanup_func_path,
     process_type  |-> args.process_type]

(* lines 35-41: the job message of record number n *)
JobMessage(args, n) ==
    [valid         |-> TRUE,
     has           |-> MessageKeys,
     config        |-> args.config,
     record        |-> args.records[n],
     transfer_func |-> args.transfer_func_path,
     cleanup_func  |-> args.cleanup_func_path,
     process_type  |-> args.process_type]

(* a variant that takes a worker's own failure envelope for a crash *)
Classify_self_reported_crash(file) ==
    IF file.kind # "json" THEN "CRASHED"
    ELSE IF file.continue_dag_run THEN "SUCCESS"
    ELSE IF file.error.kind = "dict" /\ file.error.e[1].tag = "Critical Worker Failure"
         THEN "CRASHED" ELSE "FAILED"

(* lines 71-81: the status line of one job, from its result file:          *)
(* open or json.load raising is CRASHED, else result.get("continue_dag_run") *)
Classify(file) ==
    IF file.kind # "json" THEN "CRASHED"
    ELSE IF file.continue_dag_run THEN "SUCCESS" ELSE "FAILED"

(* a worker process: its position, the path on its command line, the       *)
(* message on its stdin, its exit code, and whether the dispatcher holds it *)
(* in job["process"]                                                        *)
NoProcess == [pc |-> "none", result_path |-> "", msg |-> NoMessage, exit |-> 0,
              attached |-> FALSE]
NoFiles == [exists |-> FALSE, subdirs |-> {}, files |-> [j \in Jobs |-> Missing]]
NoOutcome == [kind |-> "none", continue_dag_run |-> FALSE, exc |-> ""]
NoSummary == [made |-> FALSE, continue_dag_run |-> FALSE]

(* the frame of a dispatch on entry *)
DispEnter(entry, args) ==
    [entry |-> entry, args |-> args, pc |-> "enter", job_specs |-> <<>>,
     launched |-> 0, waited |-> 0, read |-> 0, success |-> 0, fail |-> 0,
     lines |-> <<>>, summary |-> NoSummary, exc |-> "", outcome |-> NoOutcome]

NoDispatch == [DispEnter("none", [config |-> "", records |-> <<>>, transfer_func_path |-> "",
                                  cleanup_func_path |-> "", process_type |-> ""])
               EXCEPT !.pc = "idle"]

N == Len(disp.args.records)

-----------------------------------------------------------------------------
(* audit.py and get_count.py                                               *)

(* A count function (get_source_count, get_target_count) ends in one of:   *)
(*   "count"    it returns the count n                                     *)
(*   "exc"      it raises an Exception, which get_count reports            *)
(*   "exc_log"  it raises an Exception and the logger.error call of        *)
(*              get_count's handler raises too, so that get_count raises   *)
(*   "base"     it raises a BaseException that is no Exception (an         *)
(*              interrupt), which no except clause here names              *)
Counts == {0, 80, 100}
ProbeOutcomes ==
    {[kind |-> "count", n |-> c] : c \in Counts}
      \cup {[kind |-> k, n |-> 0] : k \in {"exc", "exc_log", "base"}}

(* str() of a field value *)
PyStr(v) == IF v.kind = "none" THEN "None" ELSE v.s

CountResult(count, continue, error) ==
    [count |-> count, continue_dag_run |-> continue, error |-> error]

(* get_count.  The count functions are wrapped by trace, which does not    *)
(* keep their names: __name__ is "wrapper".                                *)
get_count(out) ==
    CASE out.kind = "count" ->
           [raised |-> "", res |-> CountResult(out.n, TRUE, V_None)]
      [] out.kind = "exc" ->
           [raised |-> "",
            res |-> CountResult(0, FALSE, V_Str("Count function wrapper failed: probe unreachable"))]
      [] out.kind = "exc_log" ->
           [raised |-> "exc", res |-> CountResult(0, FALSE, V_None)]
      [] out.kind = "base" ->
           [raised |-> "base", res |-> CountResult(0, FALSE, V_None)]

NoAuditResult ==
    [returned |-> FALSE, source_count |-> 0, target_count |-> 0, audit_result |-> "",
     continue_dag_run |-> FALSE, error |-> V_None]

(* lines 22-25: the frame on entry *)
AuditEnter(record) ==
    [pc           |-> "source",
     record       |-> record,
     src_res      |-> CountResult(0, FALSE, V_None),
     trg_res      |-> CountResult(0, FALSE, V_None),
     errors       |-> <<>>,
     err_idx      |-> 0,
     source_count |-> 0,
     target_count |-> 0,
     audit_result |-> "",
     continue_dag |-> FALSE,
     calls        |-> <<>>,
     escaped      |-> "",
     result       |-> NoAuditResult]

(* One entry of the call log: the collaborator called, how the call ended  *)
(* (with the count n it returned, for a count function), and the           *)
(* audit_status of the record at the call.                                 *)
AuditCall(fn, out, n, a) ==
    [fn |-> fn, out |-> out, n |-> n, status |-> Field(a.record, "audit_status").s]

CountFunction(side) == IF side = "source" THEN "get_source_count" ELSE "get_target_count"

(* a variant that labels the entries of both sides alike *)
ProbeLabel_unlabelled(side) == "Count error"

(* lines 35 and 45: the label of a failed probe's entry *)
ProbeLabel(side) == IF side = "source" THEN "Source count error" ELSE "Target count error"

(* a variant that gives up the audit when the source probe has failed *)
NextProbe_stop_on_failure(a, side) ==
    IF side = "source" THEN (IF a.errors # <<>> THEN "verdict" ELSE "target") ELSE "verdict"

(* where control goes after the probe of a side: lines 37-39, 47 *)
NextProbe(a, side) == IF side = "source" THEN "target" ELSE "verdict"

(* err_idx += 1; errors[f"error{err_idx:02d}"] = f"{tag}: {msg}" *)
AddAuditError(a, tag, msg) ==
    [a EXCEPT !.err_idx = a.err_idx + 1,
              !.errors = DictSet(a.errors, ErrKey(a.err_idx + 1), tag, msg)]

(* lines 28-35 (source) and 38-45 (target) *)
StepProbe(a, side, out) ==
    LET r   == get_count(out)
        a1  == [a EXCEPT !.calls = Append(a.calls, AuditCall(CountFunction(side), out.kind, out.n, a))]
        res == IF r.raised = "exc"
               THEN CountResult(0, FALSE, V_Str("get_count raised: logger unavailable"))
               ELSE r.res
        a2  == IF side = "source" THEN [a1 EXCEPT !.src_res = res]
               ELSE [a1 EXCEPT !.trg_res = res]
        a3  == IF res.continue_dag_run THEN a2
               ELSE AddAuditError(a2, ProbeLabel(side), PyStr(res.error))
    IN  IF r.raised = "base"
        THEN [a1 EXCEPT !.pc = "raised", !.escaped = CountFunction(side)]
        ELSE [a3 EXCEPT !.pc = NextProbe(a3, side)]

(* a variant that compares the counts before it looks at the errors *)
Verdict_counts_first(errors, source_count, target_count) ==
    IF source_count = target_count THEN "MATCH"
    ELSE IF errors # <<>> THEN "ERROR" ELSE "MISMATCH"

(* lines 51-61: the verdict *)
Verdict(errors, source_count, target_count) ==
    IF errors # <<>> THEN "ERROR"
    ELSE IF source_count = target_count THEN "MATCH" ELSE "MISMATCH"

(* a variant that lets the run go on after a mismatch *)
Outcome_continue_on_mismatch(verdict) ==
    CASE verdict = "ERROR"    -> [continue_dag |-> FALSE, audit_status |-> "ERROR"]
      [] verdict = "MATCH"    -> [continue_dag |-> TRUE, audit_status |-> "SUCCESS"]
      [] verdict = "MISMATCH" -> [continue_dag |-> TRUE, audit_status |-> "FAILURE"]

(* a variant that stamps an audit that could not be made as a failed one *)
Outcome_failure_on_error(verdict) ==
    CASE verdict = "ERROR"    -> [continue_dag |-> FALSE, audit_status |-> "FAILURE"]
      [] verdict = "MATCH"    -> [continue_dag |-> TRUE, audit_status |-> "SUCCESS"]
      [] verdict = "MISMATCH" -> [continue_dag |-> FALSE, audit_status |-> "FAILURE"]

(* lines 52-63: what each verdict sets *)
Outcome(verdict) ==
    CASE verdict = "ERROR"    -> [continue_dag |-> FALSE, audit_status |-> "ERROR"]
      [] verdict = "MATCH"    -> [continue_dag |-> TRUE, audit_status |-> "SUCCESS"]
      [] verdict = "MISMATCH" -> [continue_dag |-> FALSE, audit_status |-> "FAILURE"]

(* the text of the mismatch entry after "Counts do not match for record " *)
MismatchText(record, source_count, target_count) ==
    PyStr(Field(record, "id")) \o ". Source: " \o ToString(source_count)
        \o ", Target: " \o ToString(target_count)

(* lines 47-68.  The mismatch entry has no label before a colon: its text  *)
(* is the tag, a space and the msg.                                        *)
StepVerdict(a) ==
    LET source_count == a.src_res.count
        target_count == a.trg_res.count
        verdict == Verdict(a.errors, source_count, target_count)
        o  == Outcome(verdict)
        a1 == [a EXCEPT !.source_count = source_count,
                        !.target_count = target_count,
                        !.audit_result = verdict,
                        !.continue_dag = o.continue_dag,
                        !.record = update_record_values(a.record,
                                       "audit_status" :> V_Str(o.audit_status)),
                        !.pc = "persist"]
    IN  IF verdict = "MISMATCH"
        THEN AddAuditError(a1, "Counts do not match for record",
                           MismatchText(a.record, source_count, target_count))
        ELSE a1

(* a variant that returns without handing the record to the store *)
StepPersist_skipped(a, out) ==
    [a EXCEPT !.pc = "returned",
              !.result = [returned |-> TRUE,
                          source_count |-> a.source_count,
                          target_count |-> a.target_count,
                          audit_result |-> a.audit_result,
                          continue_dag_run |-> a.continue_dag,
                          error |-> IF a.errors = <<>> THEN V_None ELSE V_Err(a.errors)]]

(* lines 71-80: the persist, which no try statement guards, and the return *)
StepPersist(a, out) ==
    LET persist == update_record_details_in_drive_table(out)
        a1 == [a EXCEPT !.calls = Append(a.calls, AuditCall(persist.fn, out, 0, a))]
    IN  IF persist.raised
        THEN [a1 EXCEPT !.pc = "raised", !.escaped = persist.fn]
        ELSE [a1 EXCEPT !.pc = "returned",
                        !.result = [returned |-> TRUE,
                                    source_count |-> a.source_count,
                                    target_count |-> a.target_count,
                                    audit_result |-> a.audit_result,
                                    continue_dag_run |-> a.continue_dag,
                                    error |-> IF a.errors = <<>> THEN V_None
                                              ELSE V_Err(a.errors)]]

(* records handed to audit_counts: the one of tests/test_audit.py, one     *)
(* without an id, and one that carries the audit_status of an earlier      *)
(* audit                                                                   *)
AuditRecord == ("id" :> V_Str("test_record_123"))
            @@ ("source_table" :> V_Str("source.table"))
            @@ ("target_table" :> V_Str("target.table"))
AnonymousRecord == ("source_table" :> V_Str("source.table"))
                @@ ("target_table" :> V_Str("target.table"))
AuditedRecord == AuditRecord @@ ("audit_status" :> V_Str("SUCCESS"))
AuditRecords == {AuditRecord, AnonymousRecord, AuditedRecord}

NoAudit == [AuditEnter(AuditRecord) EXCEPT !.pc = "idle"]

-----------------------------------------------------------------------------
(* update_audit_details: the append to the AUDIT_DETAILS list of a row of  *)
(* the tracking table, by a read, a change in Python and a write inside    *)
(* one transaction.  The table is as Snowflake keeps it: a statement sees  *)
(* what was committed when it starts (READ COMMITTED), a SELECT takes no   *)
(* lock, an UPDATE waits for the lock of another transaction's UPDATE and  *)
(* holds its own until commit or rollback.                                 *)

TrackingIds == {"trk_1", "trk_2"}

(* the AUDIT_DETAILS cell of a row: NULL, a list, or a value that is no list *)
Null == [kind |-> "null", items |-> <<>>]
List(items) == [kind |-> "list", items |-> items]
NotAList == [kind |-> "object", items |-> <<>>]
Cells == {Null, List(<<"audit_0">>), NotAList}

Callers == {"call_a", "call_b"}
AuditObject(c) == IF c = "call_a" THEN "audit_a" ELSE "audit_b"

(* the tracking_id a call is given: a row of the table, an id without a    *)
(* row, or none                                                            *)
TrackingArgs == TrackingIds \cup {"trk_9", ""}

NoReturn == [returned |-> FALSE, continue_dag_run |-> FALSE, error |-> ""]

(* lines 310-318: the frame of a call on entry *)
AuditDetailsEnter(tracking_id, audit_object) ==
    [pc           |-> "validate",
     tracking_id  |-> tracking_id,
     audit_object |-> audit_object,
     conn         |-> FALSE,
     current_data |-> <<>>,
     final_data   |-> <<>>,
     return_val   |-> NoReturn]

NoControl ==
    [table |-> [tid \in TrackingIds |-> Null],
     lock  |-> "",
     calls |-> [c \in Callers |-> [AuditDetailsEnter("", "") EXCEPT !.pc = "idle"]]]

(* the except clauses, lines 409-428: rollback, which gives up the lock    *)
(* of this transaction, and the failure envelope; then the finally block   *)
Rollback(k, c, e) ==
    [k EXCEPT !.lock = IF k.lock = c THEN "" ELSE k.lock,
              !.calls[c].return_val = [NoReturn EXCEPT !.error = e],
              !.calls[c].pc = "close"]

(* lines 320-336 *)
StepValidate(k, c) ==
    IF k.calls[c].tracking_id = "" \/ k.calls[c].audit_object = ""
    THEN [k EXCEPT !.calls[c].return_val = [NoReturn EXCEPT !.error = "Missing inputs"],
                   !.calls[c].pc = "close"]
    ELSE [k EXCEPT !.calls[c].pc = "connect"]

(* lines 339-347 *)
StepConnect(k, c, out) ==
    IF out = "ok"
    THEN [k EXCEPT !.calls[c].conn = TRUE, !.calls[c].pc = "select"]
    ELSE [k EXCEPT !.calls[c].return_val = [NoReturn EXCEPT !.error = "connection"],
                   !.calls[c].pc = "close"]

(* lines 349-378: the SELECT reads the committed cell of the row *)
StepSelect(k, c, out) ==
    LET tid == k.calls[c].tracking_id
    IN  IF out # "ok" THEN Rollback(k, c, "snowflake.connector.Error")
        ELSE IF tid \notin TrackingIds THEN Rollback(k, c, "No record found")
        ELSE IF k.table[tid].kind = "object" THEN Rollback(k, c, "expected a list")
        ELSE [k EXCEPT !.calls[c].current_data = k.table[tid].items,
                       !.calls[c].pc = "update"]

(* lines 380-399: the list read earlier, with the new object appended, is  *)
(* the value of the UPDATE; the statement takes the lock                   *)
StepUpdate(k, c, out) ==
    IF out # "ok" THEN Rollback(k, c, "snowflake.connector.Error")
    ELSE [k EXCEPT !.calls[c].final_data =
                       Append(k.calls[c].current_data, k.calls[c].audit_object),
                   !.lock = c,
                   !.calls[c].pc = "commit"]

(* lines 401-407 *)
StepCommit(k, c, out) ==
    IF out # "ok" THEN Rollback(k, c, "snowflake.connector.Error")
    ELSE [k EXCEPT !.table[k.calls[c].tracking_id] = List(k.calls[c].final_data),
                   !.lock = "",
                   !.calls[c].return_val = [NoReturn EXCEPT !.continue_dag_run = TRUE],
                   !.calls[c].pc = "close"]

(* lines 430-434, and the return of the envelope *)
StepClose(k, c) ==
    [k EXCEPT !.calls[c].conn = FALSE,
              !.calls[c].return_val.returned = TRUE,
              !.calls[c].pc = "returned"]

-----------------------------------------------------------------------------
(* SpecOrch: one call of generic_transfer_orchestrator                     *)

InitOrch ==
    /\ orch \in {OrchEnter(c, r, p, d) :
                  c \in TimezoneSettings, r \in InputRecords, p \in ProcessTypes, d \in Durations}
    /\ disp = NoDispatch
    /\ fs = NoFiles
    /\ procs = [j \in Jobs |-> NoProcess]
    /\ ctl = NoControl
    /\ audit = NoAudit
    /\ worker = NoWorker

GetTimezone ==
    /\ orch.pc = "get_timezone"
    /\ orch' = StepGetTimezone(orch)
    /\ UNCHANGED <<disp, fs, procs, audit, worker, ctl>>

StampRunning ==
    /\ orch.pc = "stamp_running"
    /\ \E out \in Outcomes : orch' = StepStampRunning(orch, out)
    /\ UNCHANGED <<disp, fs, procs, audit, worker, ctl>>

Transfer ==
    /\ orch.pc = "transfer"
    /\ \E out \in TransferOutcomes : orch' = StepTransfer(orch, out)
    /\ UNCHANGED <<disp, fs, procs, audit, worker, ctl>>

Cleanup ==
    /\ orch.pc = "cleanup"
    /\ \E out \in Outcomes : orch' = StepCleanup(orch, out)
    /\ UNCHANGED <<disp, fs, procs, audit, worker, ctl>>

Finalize ==
    /\ orch.pc = "finalize"
    /\ \E out \in Outcomes : orch' = StepFinalize(orch, out)
    /\ UNCHANGED <<disp, fs, procs, audit, worker, ctl>>

Alert ==
    /\ orch.pc = "alert"
    /\ \E out \in Outcomes : orch' = StepAlert(orch, out)
    /\ UNCHANGED <<disp, fs, procs, audit, worker, ctl>>

NextOrch ==
    \/ GetTimezone
    \/ StampRunning
    \/ Transfer
    \/ Cleanup
    \/ Finalize
    \/ Alert

SpecOrch == InitOrch /\ [][NextOrch]_vars

-----------------------------------------------------------------------------
(* Spec: one dispatch of a batch                                           *)

Entries == {"__main__", "run_generic_parallel_jobs"}
Batches == UNION {[1..n -> BatchRecords] : n \in 0..MaxJobs}

(* The batch is entered either through run_generic_parallel_jobs or        *)
(* through the sequence of the module's __main__ block, which makes the    *)
(* same three calls without creating the directory first; the __main__     *)
(* block's own batch (three records, the Demo references) is one of the    *)
(* inputs.                                                                 *)
Init ==
    /\ orch = Idle
    /\ disp \in {DispEnter(e, [config |-> c, records |-> b,
                               transfer_func_path |-> r.transfer_func,
                               cleanup_func_path |-> r.cleanup_func,
                               process_type |-> r.process_type]) :
                   e \in Entries, c \in DispatchConfigs, b \in Batches,
                   r \in {SrcToStg, StgToTrg, Demo}}
    /\ fs = NoFiles
    /\ procs = [j \in Jobs |-> NoProcess]
    /\ ctl = NoControl
    /\ audit = NoAudit
    /\ worker = NoWorker

Raise(d, e) == [d EXCEPT !.pc = "finally", !.exc = e]

(* run_generic_parallel_jobs, lines 123-125: before the try statement *)
EnterDag ==
    /\ disp.pc = "enter"
    /\ disp.entry = "run_generic_parallel_jobs"
    /\ \E out \in Outcomes :
         IF out = "ok"
         THEN /\ fs' = [fs EXCEPT !.exists = TRUE]
              /\ disp' = [disp EXCEPT !.pc = "setup"]
         ELSE /\ fs' = fs
              /\ disp' = [disp EXCEPT !.pc = "done",
                            !.outcome = [NoOutcome EXCEPT !.kind = "raised", !.exc = "os.makedirs"]]
    /\ UNCHANGED <<orch, procs, audit, worker, ctl>>

(* __main__, lines 86-96 *)
EnterMain ==
    /\ disp.pc = "enter"
    /\ disp.entry = "__main__"
    /\ disp' = [disp EXCEPT !.pc = "setup"]
    /\ UNCHANGED <<orch, fs, procs, audit, worker, ctl>>

(* setup_job_directory, lines 13-28.  os.makedirs(job_dir_path) raises     *)
(* FileExistsError when the directory is there already; creating a         *)
(* sub-directory may fail after created of them have been made.            *)
SetupJobDirectory ==
    /\ disp.pc = "setup"
    /\ IF fs.exists
       THEN /\ disp' = Raise(disp, "FileExistsError")
            /\ fs' = fs
       ELSE \E created \in 0..N :
              /\ fs' = [fs EXCEPT !.exists = TRUE, !.subdirs = 1..created]
              /\ disp' = IF created < N THEN Raise(disp, "os.makedirs")
                         ELSE [disp EXCEPT
                                 !.job_specs = [n \in 1..N |-> JobSpec(n, disp.args.records[n])],
                                 !.pc = IF N = 0 THEN "return" ELSE "launch"]
    /\ UNCHANGED <<orch, procs, audit, worker, ctl>>

(* a variant that starts the worker of a job again after a failed write to *)
(* its stdin                                                               *)
LaunchJob_again_after_pipe(d, ps, out) ==
    LET n == d.launched + 1
    IN  CASE out = "ok" ->
               [d |-> [d EXCEPT !.launched = n,
                                !.pc = IF n = Len(d.args.records) THEN "wait" ELSE "launch"],
                ps |-> [ps EXCEPT ![n] = [pc |-> "running", result_path |-> d.job_specs[n].result_path,
                                          msg |-> JobMessage(d.args, n),
                                          exit |-> 0, attached |-> TRUE]]]
          [] out = "spawn" ->
               [d |-> Raise(d, "subprocess.Popen"), ps |-> ps]
          [] out = "pipe" ->
               [d |-> d,
                ps |-> [ps EXCEPT ![n] = [pc |-> "running", result_path |-> d.job_specs[n].result_path,
                                          msg |-> NoMessage,
                                          exit |-> 0, attached |-> FALSE]]]

(* run_jobs_in_parallel, lines 32-60: one pass of the launch loop.         *)
(*   "ok"     the worker runs and has been given its message               *)
(*   "spawn"  subprocess.Popen raises: no process                          *)
(*   "pipe"   the process runs but the write to its stdin raises           *)
LaunchJob(d, ps, out) ==
    LET n == d.launched + 1
    IN  CASE out = "ok" ->
               [d |-> [d EXCEPT !.launched = n,
                                !.pc = IF n = Len(d.args.records) THEN "wait" ELSE "launch"],
                ps |-> [ps EXCEPT ![n] = [pc |-> "running", result_path |-> d.job_specs[n].result_path,
                                          msg |-> JobMessage(d.args, n),
                                          exit |-> 0, attached |-> TRUE]]]
          [] out = "spawn" ->
               [d |-> Raise(d, "subprocess.Popen"), ps |-> ps]
          [] out = "pipe" ->
               [d |-> Raise(d, "stdin.write"),
                ps |-> [ps EXCEPT ![n] = [pc |-> "running", result_path |-> d.job_specs[n].result_path,
                                          msg |-> NoMessage,
                                          exit |-> 0, attached |-> FALSE]]]

Launch ==
    /\ disp.pc = "launch"
    /\ \E out \in {"ok", "spawn", "pipe"} :
         LET r == LaunchJob(disp, procs, out)
         IN  disp' = r.d /\ procs' = r.ps
    /\ UNCHANGED <<orch, fs, audit, worker, ctl>>

(* run_jobs_in_parallel, lines 63-64: one pass of the wait loop; wait()    *)
(* returns when that worker has terminated                                 *)
WaitJob(d) ==
    [d EXCEPT !.waited = d.waited + 1,
              !.pc = IF d.waited + 1 = Len(d.args.records) THEN "summarize" ELSE "wait"]

(* a variant that polls instead of waiting *)
Wait_without_blocking ==
    /\ disp.pc = "wait"
    /\ disp' = WaitJob(disp)
    /\ UNCHANGED <<orch, fs, procs, audit, worker, ctl>>

Wait ==
    /\ disp.pc = "wait"
    /\ procs[disp.waited + 1].pc = "exited"
    /\ disp' = WaitJob(disp)
    /\ UNCHANGED <<orch, fs, procs, audit, worker, ctl>>

(* summarize_results, lines 69-81: one pass of the loop *)
ReadResult(d, files) ==
    LET n == d.read + 1
        status == Classify(files[n])
    IN  [d EXCEPT !.read = n,
                  !.success = IF status = "SUCCESS" THEN d.success + 1 ELSE d.success,
                  !.fail = IF status = "SUCCESS" THEN d.fail ELSE d.fail + 1,
                  !.lines = Append(d.lines, [id |-> d.job_specs[n].id,
                                             record_id |-> d.job_specs[n].record_id,
                                             status |-> status]),
                  !.pc = IF n = Len(d.args.records) THEN "return" ELSE "summarize"]

Summarize ==
    /\ disp.pc = "summarize"
    /\ disp' = ReadResult(disp, fs.files)
    /\ UNCHANGED <<orch, fs, procs, audit, worker, ctl>>

(* a variant that asks for every job to have succeeded *)
SummarizeReturnValue_all(d) == [made |-> TRUE, continue_dag_run |-> d.fail = 0]

(* summarize_results, lines 82-83 *)
SummarizeReturnValue(d) == [made |-> TRUE, continue_dag_run |-> d.success > 0]

SummarizeReturn ==
    /\ disp.pc = "return"
    /\ disp' = [disp EXCEPT !.summary = SummarizeReturnValue(disp), !.pc = "finally"]
    /\ UNCHANGED <<orch, fs, procs, audit, worker, ctl>>

(* the finally blocks, lines 107-108 and 139-141: shutil.rmtree with       *)
(* ignore_errors, then the call ends: run_generic_parallel_jobs returns    *)
(* the summary (line 138), the __main__ block drops it (line 106), and     *)
(* both re-raise what was raised in the try block                          *)
Rmtree_not_called(f) == f

Rmtree(f) == NoFiles

Leave(d) ==
    [d EXCEPT !.pc = "done",
              !.outcome = IF d.exc # ""
                          THEN [NoOutcome EXCEPT !.kind = "raised", !.exc = d.exc]
                          ELSE [NoOutcome EXCEPT !.kind = "returned",
                                  !.continue_dag_run =
                                      /\ d.entry = "run_generic_parallel_jobs"
                                      /\ d.summary.continue_dag_run]]

FinallyRmtree ==
    /\ disp.pc = "finally"
    /\ fs' = Rmtree(fs)
    /\ disp' = Leave(disp)
    /\ UNCHANGED <<orch, procs, audit, worker, ctl>>

(* the messages a worker of a batch can find on its stdin, and what the   *)
(* worker process leaves behind for each of them, in each environment      *)
DispatchMessages ==
    {Message(c, r, refs, MessageKeys) :
        c \in DispatchConfigs, r \in BatchRecords, refs \in {SrcToStg, StgToTrg, Demo}}
      \cup {NoMessage}

WorkerOutcome ==
    [msg \in DispatchMessages, env \in WorkerEnvs, dir_ok \in BOOLEAN |->
        worker_process(msg, env, dir_ok)]

(* a variant in which the worker is a thread of the dispatcher and stamps  *)
(* the caller's record itself                                              *)
WorkerRun_in_process(j) ==
    /\ procs[j].pc = "running"
    /\ \E env \in WorkerEnvs :
         LET r == WorkerOutcome[procs[j].msg, env, j \in fs.subdirs]
         IN  /\ procs' = [procs EXCEPT ![j].pc = "exited", ![j].exit = r.exit]
             /\ fs' = [fs EXCEPT !.files[j] = r.file]
    /\ disp' = IF procs[j].attached
               THEN [disp EXCEPT !.args.records[j] =
                       update_record_values(@, Key(disp.args.process_type, "_status")
                                                 :> V_Str("RUNNING"))]
               ELSE disp
    /\ UNCHANGED <<orch, audit, worker, ctl>>

(* a worker process, from its start to its exit *)
WorkerRun(j) ==
    /\ procs[j].pc = "running"
    /\ \E env \in WorkerEnvs :
         LET r == WorkerOutcome[procs[j].msg, env, j \in fs.subdirs]
         IN  /\ procs' = [procs EXCEPT ![j].pc = "exited", ![j].exit = r.exit]
             /\ fs' = [fs EXCEPT !.files[j] = r.file]
    /\ UNCHANGED <<orch, disp, audit, worker, ctl>>

Next ==
    \/ EnterDag
    \/ EnterMain
    \/ SetupJobDirectory
    \/ Launch
    \/ Wait
    \/ Summarize
    \/ SummarizeReturn
    \/ FinallyRmtree
    \/ \E j \in Jobs : WorkerRun(j)

Spec == Init /\ [][Next]_vars

-----------------------------------------------------------------------------
(* SpecAudit: one call of audit_counts                                     *)

InitAudit ==
    /\ audit \in {AuditEnter(r) : r \in AuditRecords}
    /\ orch = Idle
    /\ disp = NoDispatch
    /\ fs = NoFiles
    /\ procs = [j \in Jobs |-> NoProcess]
    /\ ctl = NoControl
    /\ worker = NoWorker

SourceProbe ==
    /\ audit.pc = "source"
    /\ \E out \in ProbeOutcomes : audit' = StepProbe(audit, "source", out)
    /\ UNCHANGED <<orch, disp, fs, procs, worker, ctl>>

TargetProbe ==
    /\ audit.pc = "target"
    /\ \E out \in ProbeOutcomes : audit' = StepProbe(audit, "target", out)
    /\ UNCHANGED <<orch, disp, fs, procs, worker, ctl>>

AuditVerdict ==
    /\ audit.pc = "verdict"
    /\ audit' = StepVerdict(audit)
    /\ UNCHANGED <<orch, disp, fs, procs, worker, ctl>>

AuditPersist ==
    /\ audit.pc = "persist"
    /\ \E out \in Outcomes : audit' = StepPersist(audit, out)
    /\ UNCHANGED <<orch, disp, fs, procs, worker, ctl>>

NextAudit ==
    \/ SourceProbe
    \/ TargetProbe
    \/ AuditVerdict
    \/ AuditPersist

SpecAudit == InitAudit /\ [][NextAudit]_vars

-----------------------------------------------------------------------------
(* SpecWorker: one worker process                                          *)

InitWorker ==
    /\ worker \in {WorkerEnter(m, d) : m \in WorkerMessages, d \in BOOLEAN}
    /\ orch = Idle
    /\ disp = NoDispatch
    /\ fs = NoFiles
    /\ procs = [j \in Jobs |-> NoProcess]
    /\ ctl = NoControl
    /\ audit = NoAudit

WorkerImport ==
    /\ worker.pc = "import"
    /\ \E env \in StepEnvs : worker' = StepImport(worker, env)
    /\ UNCHANGED <<orch, disp, fs, procs, audit, ctl>>

WorkerRead ==
    /\ worker.pc = "read"
    /\ worker' = StepRead(worker)
    /\ UNCHANGED <<orch, disp, fs, procs, audit, ctl>>

WorkerResolve ==
    /\ worker.pc = "resolve"
    /\ worker' = StepResolve(worker)
    /\ UNCHANGED <<orch, disp, fs, procs, audit, ctl>>

WorkerOrchestrate ==
    /\ worker.pc = "orchestrate"
    /\ \E env \in StepEnvs : worker' = StepOrchestrate(worker, env)
    /\ UNCHANGED <<orch, disp, fs, procs, audit, ctl>>

WorkerWrite ==
    /\ worker.pc = "write"
    /\ \E env \in StepEnvs : worker' = StepWrite(worker, env)
    /\ UNCHANGED <<orch, disp, fs, procs, audit, ctl>>

WorkerLogFinished ==
    /\ worker.pc = "log_finished"
    /\ \E env \in StepEnvs : worker' = StepLogFinished(worker, env)
    /\ UNCHANGED <<orch, disp, fs, procs, audit, ctl>>

WorkerHandler ==
    /\ worker.pc = "handler"
    /\ \E env \in StepEnvs : worker' = StepHandler(worker, env)
    /\ UNCHANGED <<orch, disp, fs, procs, audit, ctl>>

WorkerKilled ==
    /\ worker.pc \notin {"idle", "exited"}
    /\ \E mid_write \in BOOLEAN : worker' = Killed(worker, mid_write)
    /\ UNCHANGED <<orch, disp, fs, procs, audit, ctl>>

NextWorker ==
    \/ WorkerImport
    \/ WorkerRead
    \/ WorkerResolve
    \/ WorkerOrchestrate
    \/ WorkerWrite
    \/ WorkerLogFinished
    \/ WorkerHandler
    \/ WorkerKilled

SpecWorker == InitWorker /\ [][NextWorker]_vars

-----------------------------------------------------------------------------
(* Properties of the dispatcher                                             *)

WellFormed(file) == file.kind = "json"
ResultsInPlace == disp.pc \in {"summarize", "return", "finally"}
LaunchFaults == {"subprocess.Popen", "stdin.write"}

(* C1: the continue flag summarize_results returns is true if and only if  *)
(* at least one job of the batch left a well-formed result envelope whose  *)
(* continue_dag_run is true; so it is false when every job failed or       *)
(* crashed, and for an empty batch.                                        *)
C1_ContinueIffOneSuccess ==
    /\ (disp.summary.made /\ ResultsInPlace)
         => (disp.summary.continue_dag_run
               <=> \E n \in 1..N : WellFormed(fs.files[n]) /\ fs.files[n].continue_dag_run)
    /\ (disp.summary.made /\ N = 0) => ~disp.summary.continue_dag_run

C1_Witness ==
    /\ disp.summary.made /\ ResultsInPlace
    /\ disp.summary.continue_dag_run
    /\ \E n \in 1..N : ~WellFormed(fs.files[n])
    /\ \E n \in 1..N : WellFormed(fs.files[n]) /\ ~fs.files[n].continue_dag_run

(* C2: when a call of run_generic_parallel_jobs has ended, by returning or *)
(* by raising, the batch working directory does not exist.                 *)
C2_DirectoryGoneOnExit ==
    (disp.entry = "run_generic_parallel_jobs" /\ disp.pc = "done") => ~fs.exists

C2_Witness ==
    /\ disp.entry = "run_generic_parallel_jobs"
    /\ disp.pc = "done"
    /\ disp.outcome.kind = "raised"
    /\ disp.outcome.exc = "FileExistsError"
    /\ ~fs.exists

(* C3: every job read so far has the status its result file alone gives    *)
(* it: SUCCESS for a well-formed envelope with continue_dag_run true,      *)
(* FAILED for a well-formed envelope with continue_dag_run false, CRASHED  *)
(* exactly for a missing or malformed file, whatever the worker's exit     *)
(* code and whatever the envelope says.                                    *)
C3_ClassifiedByFileAlone ==
    ResultsInPlace =>
      /\ Len(disp.lines) = disp.read
      /\ \A n \in 1..disp.read :
           LET file == fs.files[n]
               status == disp.lines[n].status
           IN  /\ status = "SUCCESS" <=> (WellFormed(file) /\ file.continue_dag_run)
               /\ status = "FAILED" <=> (WellFormed(file) /\ ~file.continue_dag_run)
               /\ status = "CRASHED" <=> file.kind \in {"missing", "partial"}

C3_Witness ==
    /\ ResultsInPlace
    /\ \E n \in 1..disp.read : disp.lines[n].status = "FAILED" /\ procs[n].exit = 1
    /\ \E n \in 1..disp.read : disp.lines[n].status = "CRASHED" /\ fs.files[n].kind = "partial"

(* C4: when the launch of one job faults, the workers of all other jobs    *)
(* are still launched and waited for, that job alone is recorded as        *)
(* crashed, and the dispatch returns an aggregate.                         *)
C4_LaunchFaultIsolated ==
    (disp.pc = "done" /\ disp.exc \in LaunchFaults)
    => /\ \A n \in 1..N : n # disp.launched + 1 => procs[n].pc = "exited"
       /\ disp.summary.made
       /\ disp.outcome.kind = "returned"

(* C5: join-all.  The wait loop starts when every job has been launched    *)
(* and passes the workers in launch order; no result file is read and no   *)
(* aggregate computed while a launched worker is still running.            *)
C5_JoinAll ==
    /\ disp.pc \in {"wait", "summarize"} => disp.launched = N
    /\ \A n \in 1..disp.waited : procs[n].pc = "exited"
    /\ (disp.read > 0 \/ disp.summary.made)
         => /\ disp.waited = N
            /\ \A n \in Jobs : procs[n].pc # "running"

C5_Witness ==
    /\ disp.pc = "summarize"
    /\ disp.read = 1
    /\ N >= 2
    /\ procs[1].exit # procs[2].exit

(* C6: a call of run_generic_parallel_jobs on N >= 1 records, with no      *)
(* system call made to fail, has launched exactly N workers when it ends,  *)
(* worker n with the message of record n.                                  *)
C6_OneWorkerPerRecord ==
    (/\ disp.entry = "run_generic_parallel_jobs"
     /\ disp.pc = "done"
     /\ N >= 1
     /\ disp.outcome.exc \notin (LaunchFaults \cup {"os.makedirs"}))
    => /\ disp.launched = N
       /\ \A n \in 1..N : procs[n].pc # "none" /\ procs[n].msg = JobMessage(disp.args, n)
       /\ \A n \in Jobs \ (1..N) : procs[n].pc = "none"

-----------------------------------------------------------------------------
(* What a run did, read off its call log                                   *)

CallsTo(s, fn) == {i \in 1..Len(s.calls) : s.calls[i].fn = fn}
Called(s, fn, out) == \E i \in CallsTo(s, fn) : s.calls[i].out = out
Ended(s) == s.pc \in {"returned", "raised"}
Returned(s) == s.pc = "returned"
ErrorTags(d) == [i \in 1..Len(d) |-> d[i].tag]
ErrorKeys(d) == [i \in 1..Len(d) |-> d[i].key]

(* C7: transfer raises, cleanup returns normally: every envelope returned  *)
(* has continue_dag_run false and the single entry error01 "Transfer       *)
(* Error", the record's <process_type>_status is FAILED, and the alert has *)
(* been invoked exactly once (and never more than once if the run ends in  *)
(* an exception of the terminal persist instead).                          *)
C7_TransferFailsCleanupOk ==
    (Ended(orch) /\ Called(orch, "transfer_func", "exc") /\ Called(orch, "cleanup_func", "ok"))
    => /\ Status(orch.record, orch.process_type) = "FAILED"
       /\ Cardinality(CallsTo(orch, "send_mail_alert")) <= 1
       /\ Returned(orch) =>
            /\ orch.result.continue_dag_run = FALSE
            /\ orch.result.error.kind = "dict"
            /\ ErrorKeys(orch.result.error.e) = <<"error01">>
            /\ ErrorTags(orch.result.error.e) = <<"Transfer Error">>
            /\ Cardinality(CallsTo(orch, "send_mail_alert")) = 1

C7_Witness ==
    /\ Returned(orch)
    /\ Called(orch, "transfer_func", "exc")
    /\ Called(orch, "cleanup_func", "ok")
    /\ Called(orch, "send_mail_alert", "ok")

(* C8: transfer raises and cleanup raises: every envelope returned has     *)
(* continue_dag_run false and exactly two entries, error01 "Transfer       *)
(* Error" then error02 "Cleanup Error"; once filed, the transfer error is  *)
(* never replaced or removed.                                              *)
C8_BothErrorsKept ==
    /\ (Called(orch, "transfer_func", "exc") /\ orch.pc # "idle")
         => /\ Len(orch.error_dict) >= 1
            /\ orch.error_dict[1] = [key |-> "error01", tag |-> "Transfer Error",
                                     msg |-> "Simulated transfer failure"]
    /\ (Returned(orch) /\ Called(orch, "transfer_func", "exc") /\ Called(orch, "cleanup_func", "exc"))
         => /\ orch.result.continue_dag_run = FALSE
            /\ orch.result.error.kind = "dict"
            /\ ErrorKeys(orch.result.error.e) = <<"error01", "error02">>
            /\ ErrorTags(orch.result.error.e) = <<"Transfer Error", "Cleanup Error">>

C8_Witness ==
    /\ Returned(orch)
    /\ Called(orch, "transfer_func", "exc")
    /\ Called(orch, "cleanup_func", "exc")

(* C9: transfer returns normally: neither cleanup nor alert is ever        *)
(* invoked, the terminal stamp is COMPLETED, and every envelope returned   *)
(* has continue_dag_run true and error null.                               *)
C9_TransferOk ==
    Called(orch, "transfer_func", "ok")
    => /\ CallsTo(orch, "cleanup_func") = {}
       /\ CallsTo(orch, "send_mail_alert") = {}
       /\ Ended(orch) => Status(orch.record, orch.process_type) = "COMPLETED"
       /\ Returned(orch) => /\ orch.result.continue_dag_run = TRUE
                            /\ orch.result.error = V_None

C9_Witness ==
    /\ Returned(orch)
    /\ Called(orch, "transfer_func", "ok")
    /\ orch.result.continue_dag_run = TRUE

(* C10: a fault during INIT (timezone resolution raising, or the persist   *)
(* of the RUNNING stamp raising) ends in a returned envelope with          *)
(* continue_dag_run false and a "Critical Error" entry, the transfer never *)
(* invoked, and no exception leaving the orchestrator.                     *)
InitFault(s) ==
    \/ s.escaped = "get_timezone"
    \/ (Len(s.calls) >= 1 /\ s.calls[1].fn = "update_record_details_in_drive_table"
                          /\ s.calls[1].status = "RUNNING" /\ s.calls[1].out = "exc")

C10_InitFaultIsReported ==
    (Ended(orch) /\ InitFault(orch))
    => /\ Returned(orch)
       /\ orch.result.continue_dag_run = FALSE
       /\ orch.result.error.kind = "dict"
       /\ \E i \in 1..Len(orch.result.error.e) : orch.result.error.e[i].tag = "Critical Error"
       /\ CallsTo(orch, "transfer_func") = {}

(* C11: in a run that has ended, the cleanup capability has been invoked   *)
(* if and only if the transfer capability was invoked and raised; so it is *)
(* not invoked in a run that failed during INIT, before any transfer.      *)
TransferRaised(s) ==
    \E i \in CallsTo(s, "transfer_func") : s.calls[i].out \in {"exc", "base"}

C11_CleanupIffTransferRaised ==
    Ended(orch) => (CallsTo(orch, "cleanup_func") # {} <=> TransferRaised(orch))

-----------------------------------------------------------------------------
(* What a call of audit_counts did, read off its call log                  *)

AuditCallsTo(a, fn) == {i \in 1..Len(a.calls) : a.calls[i].fn = fn}
AuditReturned(a) == a.pc = "returned"
Decided(a) == a.audit_result # ""
NoInterrupt(a) == \A i \in 1..Len(a.calls) : a.calls[i].out # "base"
ProbeSucceeded(a, side) ==
    \E i \in AuditCallsTo(a, CountFunction(side)) : a.calls[i].out = "count"
ProbeFailed(a, side) ==
    \E i \in AuditCallsTo(a, CountFunction(side)) : a.calls[i].out \in {"exc", "exc_log"}
ProbeCount(a, side) ==
    LET i == CHOOSE i \in AuditCallsTo(a, CountFunction(side)) : TRUE IN a.calls[i].n

(* C12: whatever way the probes end (a count, a failure reported by        *)
(* get_count, an Exception raised by get_count), once the call is past the *)
(* probes the source probe and the target probe have been invoked exactly  *)
(* once each, the source first; the target probe is invoked also after a   *)
(* failed source probe; and no probe Exception leaves audit_counts.        *)
C12_BothProbesAlways ==
    /\ audit.pc \in {"target", "verdict", "persist", "returned", "raised"}
         => Cardinality(AuditCallsTo(audit, "get_source_count")) = 1
    /\ (audit.pc \in {"verdict", "persist", "returned", "raised"} /\ NoInterrupt(audit))
         => /\ Cardinality(AuditCallsTo(audit, "get_target_count")) = 1
            /\ audit.calls[1].fn = "get_source_count"
            /\ audit.calls[2].fn = "get_target_count"
    /\ (audit.pc = "raised" /\ NoInterrupt(audit))
         => audit.escaped = "update_record_details_in_drive_table"

C12_Witness ==
    /\ AuditReturned(audit)
    /\ \E i \in AuditCallsTo(audit, "get_source_count") : audit.calls[i].out = "exc"
    /\ \E i \in AuditCallsTo(audit, "get_target_count") : audit.calls[i].out = "exc_log"

(* C13: the verdict is ERROR exactly when at least one probe failed (also  *)
(* when the two reported counts are equal), MISMATCH exactly when both     *)
(* probes succeeded with different counts, MATCH exactly when both         *)
(* succeeded with equal counts; the result returned carries that verdict.  *)
C13_VerdictPrecedence ==
    Decided(audit) =>
      LET both == ProbeSucceeded(audit, "source") /\ ProbeSucceeded(audit, "target")
          same == ProbeCount(audit, "source") = ProbeCount(audit, "target")
      IN  /\ audit.audit_result \in {"ERROR", "MISMATCH", "MATCH"}
          /\ audit.audit_result = "ERROR" <=> ~both
          /\ audit.audit_result = "MISMATCH" <=> (both /\ ~same)
          /\ audit.audit_result = "MATCH" <=> (both /\ same)
          /\ AuditReturned(audit) => audit.result.audit_result = audit.audit_result

C13_Witness ==
    /\ AuditReturned(audit)
    /\ ProbeFailed(audit, "source") /\ ProbeFailed(audit, "target")
    /\ audit.result.source_count = audit.result.target_count
    /\ audit.result.audit_result = "ERROR"

(* C14: in every result audit_counts returns, continue_dag_run is true     *)
(* exactly when audit_result is MATCH, and error is None exactly when      *)
(* audit_result is MATCH.                                                  *)
C14_ContinueOnlyOnMatch ==
    AuditReturned(audit) =>
      /\ audit.result.continue_dag_run <=> audit.result.audit_result = "MATCH"
      /\ audit.result.error = V_None <=> audit.result.audit_result = "MATCH"

C14_Witness ==
    /\ AuditReturned(audit)
    /\ audit.result.audit_result = "MISMATCH"
    /\ ~audit.result.continue_dag_run
    /\ audit.result.error.kind = "dict"

(* C15: once the verdict is made the record's audit_status is SUCCESS for  *)
(* MATCH, FAILURE for MISMATCH and ERROR for ERROR; on MISMATCH the error  *)
(* collection is the single entry error01, whose text names the record id  *)
(* and the two counts the probes returned.                                 *)
C15_AuditStatusAndMismatchEntry ==
    Decided(audit) =>
      LET status == Field(audit.record, "audit_status").s
      IN  /\ audit.audit_result = "MATCH" => status = "SUCCESS"
          /\ audit.audit_result = "MISMATCH" => status = "FAILURE"
          /\ audit.audit_result = "ERROR" => status = "ERROR"
          /\ audit.audit_result = "MISMATCH" =>
               /\ Len(audit.errors) = 1
               /\ audit.errors[1].key = "error01"
               /\ audit.errors[1].tag = "Counts do not match for record"
               /\ audit.errors[1].msg =
                    PyStr(Field(audit.record, "id"))
                      \o ". Source: " \o ToString(ProbeCount(audit, "source"))
                      \o ", Target: " \o ToString(ProbeCount(audit, "target"))
               /\ AuditReturned(audit) => audit.result.error = V_Err(audit.errors)

C15_Witness ==
    /\ AuditReturned(audit)
    /\ audit.result.audit_result = "MISMATCH"
    /\ audit.calls[1].status = "SUCCESS"
    /\ Field(audit.record, "audit_status").s = "FAILURE"
    /\ audit.result.error.e[1].msg = "test_record_123. Source: 100, Target: 80"

(* C16: every failed probe has exactly one entry, labelled by its side,    *)
(* the source entry before the target entry; when only the source probe    *)
(* raises, the target probe is still invoked and the result is ERROR with  *)
(* continue_dag_run false and the single entry error01 "Source count       *)
(* error".                                                                 *)
C16_OneLabelledEntryPerFailedProbe ==
    /\ (Decided(audit) /\ audit.audit_result = "ERROR") =>
         /\ ErrorTags(audit.errors) =
              (IF ProbeFailed(audit, "source") THEN <<"Source count error">> ELSE <<>>)
                \o (IF ProbeFailed(audit, "target") THEN <<"Target count error">> ELSE <<>>)
         /\ ErrorKeys(audit.errors) = [i \in 1..Len(audit.errors) |-> ErrKey(i)]
    /\ (AuditReturned(audit) /\ ProbeFailed(audit, "source") /\ ~ProbeFailed(audit, "target")) =>
         /\ ProbeSucceeded(audit, "target")
         /\ audit.result.audit_result = "ERROR"
         /\ ~audit.result.continue_dag_run
         /\ audit.result.error.kind = "dict"
         /\ ErrorKeys(audit.result.error.e) = <<"error01">>
         /\ ErrorTags(audit.result.error.e) = <<"Source count error">>

C16_Witness ==
    /\ AuditReturned(audit)
    /\ \E i \in AuditCallsTo(audit, "get_source_count") : audit.calls[i].out = "exc_log"
    /\ ProbeSucceeded(audit, "target")
    /\ Len(audit.result.error.e) = 1

(* C17: when audit_counts returns, on each of the three verdicts, the      *)
(* record has been handed to update_record_details_in_drive_table exactly  *)
(* once, as the last call, carrying the audit_status of that verdict; the  *)
(* persist is never made before the verdict or a second time.              *)
C17_PersistedOnceBeforeReturn ==
    /\ Cardinality(AuditCallsTo(audit, "update_record_details_in_drive_table")) <= 1
    /\ AuditReturned(audit) =>
         /\ AuditCallsTo(audit, "update_record_details_in_drive_table") = {Len(audit.calls)}
         /\ audit.calls[Len(audit.calls)].status =
              (CASE audit.result.audit_result = "MATCH"    -> "SUCCESS"
                 [] audit.result.audit_result = "MISMATCH" -> "FAILURE"
                 [] audit.result.audit_result = "ERROR"    -> "ERROR")

C17_Witness ==
    /\ AuditReturned(audit)
    /\ audit.result.audit_result = "ERROR"
    /\ audit.calls[1].status = "SUCCESS"
    /\ audit.calls[Len(audit.calls)].status = "ERROR"

-----------------------------------------------------------------------------
(* What a worker process did                                               *)

WorkerExited(w) == w.pc = "exited"
WasKilled(w) == WorkerExited(w) /\ w.exit = -9
EnvelopeWritten(w) ==
    \E i \in 1..Len(w.writes) : w.writes[i].data = "envelope" /\ ~w.writes[i].raised
MinimalEnvelope(e) ==
    Json(FALSE, V_Err(<<[key |-> "error01", tag |-> "Critical Worker Failure", msg |-> e]>>))
(* the faults of main_worker raised before the orchestrator's envelope is  *)
(* in result_path                                                          *)
FaultsBeforeWrite ==
    {"json.loads", "KeyError", "dynamic_import", "get_timezone",
     "update_record_details_in_drive_table", "rest_record_details_in_drive_table",
     "write_json_file"}

(* C18: a worker in which an exception was raised before the               *)
(* orchestrator's envelope was written (undecodable message, missing key,  *)
(* unknown reference, orchestrator raising, write failing) and that was    *)
(* not killed has, when it has exited, attempted to write the minimal      *)
(* failure envelope as its last write and exited with a non-zero code; if  *)
(* that write succeeded the file is {continue_dag_run: false, error:       *)
(* {error01: the failure}}, and if it failed the file is one the           *)
(* dispatcher classifies as CRASHED.                                       *)
C18_MinimalEnvelopeThenNonZeroExit ==
    (WorkerExited(worker) /\ ~WasKilled(worker) /\ worker.fault \in FaultsBeforeWrite)
    => /\ ~EnvelopeWritten(worker)
       /\ worker.exit # 0
       /\ Len(worker.writes) >= 1
       /\ LET last == worker.writes[Len(worker.writes)]
          IN  /\ last.data = "minimal"
              /\ ~last.raised => /\ worker.file = MinimalEnvelope(worker.fault)
                                 /\ Classify(worker.file) = "FAILED"
              /\ last.raised => Classify(worker.file) = "CRASHED"

C18_Witness ==
    /\ WorkerExited(worker)
    /\ worker.fault = "write_json_file"
    /\ worker.exit = 1
    /\ Len(worker.writes) = 2
    /\ worker.writes[2].data = "minimal" /\ worker.writes[2].raised
    /\ worker.file = Partial

(* C19: a worker whose job message names a transfer or cleanup reference   *)
(* that cannot be resolved never calls the orchestrator (no transfer, no   *)
(* cleanup, no persist of a RUNNING stamp), ends with a non-zero exit code *)
(* and a result file that is not a success, and once it has exited it      *)
(* does nothing more: the job is not tried again.                          *)
Unresolved(msg) ==
    /\ msg.valid
    /\ RequiredKeys \subseteq msg.has
    /\ ~({msg.transfer_func, msg.cleanup_func} \subseteq Importable)

C19_UnresolvedReferenceIsFatal ==
    /\ [](Unresolved(worker.msg) =>
            /\ ~worker.invoked
            /\ worker.calls = <<>>
            /\ worker.envelope = NoEnvelope
            /\ worker.pc \notin {"orchestrate", "write", "log_finished"}
            /\ WorkerExited(worker) => /\ worker.exit # 0
                                       /\ Classify(worker.file) # "SUCCESS")
    /\ [][WorkerExited(worker) => worker' = worker]_vars

C19_Witness ==
    /\ WorkerExited(worker)
    /\ worker.msg.transfer_func \in Importable
    /\ worker.msg.cleanup_func \notin Importable
    /\ worker.fault = "dynamic_import"
    /\ worker.exit = 1
    /\ worker.file = MinimalEnvelope("dynamic_import")

(* C20: a worker that has exited has exit code 0 if and only if the        *)
(* envelope returned by generic_transfer_orchestrator was written to       *)
(* result_path (stated for the workers that end by themselves, not by a    *)
(* kill).                                                                  *)
C20_ExitZeroIffEnvelopeWritten ==
    (WorkerExited(worker) /\ ~WasKilled(worker))
    => (worker.exit = 0 <=> EnvelopeWritten(worker))

-----------------------------------------------------------------------------
(* The envelope and the collaborators' failures                            *)

(* the calls of a run whose failure files an error: the persist of the     *)
(* RUNNING stamp, the transfer, the cleanup                                *)
FailedCalls(s) ==
    {i \in 1..Len(s.calls) :
        /\ s.calls[i].out = "exc"
        /\ \/ s.calls[i].fn \in {"transfer_func", "cleanup_func"}
           \/ (s.calls[i].fn = "update_record_details_in_drive_table"
                 /\ s.calls[i].status = "RUNNING")}

(* C21: in every envelope generic_transfer_orchestrator returns,           *)
(* continue_dag_run is true exactly when no error was collected, error is  *)
(* None exactly when continue_dag_run is true, and with continue_dag_run   *)
(* false the error collection is not empty.                                *)
C21_EnvelopeContract ==
    Returned(orch) =>
      /\ orch.result.continue_dag_run <=> (orch.error_dict = <<>> /\ FailedCalls(orch) = {})
      /\ orch.result.error = V_None <=> orch.result.continue_dag_run
      /\ ~orch.result.continue_dag_run =>
           /\ orch.result.error.kind = "dict"
           /\ orch.result.error.e = orch.error_dict
           /\ Len(orch.result.error.e) >= 1

C21_Witness ==
    /\ Returned(orch)
    /\ ~orch.result.continue_dag_run
    /\ Len(orch.result.error.e) = 2
    /\ orch.result.error.e[1].tag = "Critical Error"

(* C22: when the alert send fails in the FAILED path, the run still        *)
(* returns: the envelope has continue_dag_run false and exactly the error  *)
(* collection that was stamped on the record and handed to the alert, one  *)
(* entry per failed sub-operation and none for the alert; the record keeps *)
(* its FAILED stamp.                                                       *)
C22_AlertFailureChangesNothing ==
    Called(orch, "send_mail_alert", "exc") =>
      /\ Returned(orch)
      /\ orch.escaped = ""
      /\ ~orch.result.continue_dag_run
      /\ orch.result.error = Field(orch.record, Key(orch.process_type, "_error"))
      /\ Len(orch.result.error.e) = Cardinality(FailedCalls(orch))
      /\ \A i \in 1..Len(orch.result.error.e) :
           orch.result.error.e[i].tag \in {"Critical Error", "Transfer Error", "Cleanup Error"}
      /\ Status(orch.record, orch.process_type) = "FAILED"
      /\ Cardinality(CallsTo(orch, "send_mail_alert")) = 1

C22_Witness ==
    /\ Returned(orch)
    /\ Called(orch, "send_mail_alert", "exc")
    /\ Called(orch, "transfer_func", "exc")
    /\ Len(orch.result.error.e) = 1

(* C23: a terminal persist that raises (the COMPLETED or the FAILED stamp) *)
(* is not escalated: the run still returns the envelope it had decided.    *)
TerminalPersistFailed(s) ==
    \E i \in 1..Len(s.calls) :
        /\ s.calls[i].fn \in {"update_record_details_in_drive_table",
                              "rest_record_details_in_drive_table"}
        /\ s.calls[i].status \in {"COMPLETED", "FAILED"}
        /\ s.calls[i].out = "exc"

C23_TerminalPersistFailureNotEscalated ==
    (Ended(orch) /\ TerminalPersistFailed(orch))
    => /\ Returned(orch)
       /\ orch.result.continue_dag_run = ~orch.process_failed

-----------------------------------------------------------------------------
(* The text of a duration                                                  *)

(* the components of a duration: its value rounded to whole milliseconds,  *)
(* split into days, hours, minutes, seconds (each below its carry) and     *)
(* milliseconds below 1000                                                 *)
Components(d) ==
    LET total_s == d.sec + RoundMillis(d.us) \div 1000
    IN  [d  |-> total_s \div DAY_IN_SECONDS,
         h  |-> (total_s % DAY_IN_SECONDS) \div HOUR_IN_SECONDS,
         m  |-> (total_s % HOUR_IN_SECONDS) \div MINUTE_IN_SECONDS,
         s  |-> total_s % MINUTE_IN_SECONDS,
         ms |-> RoundMillis(d.us) % 1000]

ComponentText(d) ==
    LET c == Components(d)
        parts == Part(c.d, "d") \o Part(c.h, "h") \o Part(c.m, "m")
                   \o Part(c.s, "s") \o Part(c.ms, "ms")
    IN  IF parts = "" THEN "0s" ELSE parts

Finalized(s) ==
    \E i \in 1..Len(s.calls) : s.calls[i].status \in {"COMPLETED", "FAILED"}
                               /\ s.calls[i].fn # "send_mail_alert"

(* C28: the duration text stamped on the record is the concatenation, in   *)
(* the order d, h, m, s, ms, of the non-zero components of the elapsed     *)
(* time, and "0s" when there is none.                                      *)
C28_DurationTextIsItsComponents ==
    Finalized(orch) =>
        Field(orch.record, Key(orch.process_type, "_duration_str"))
          = V_Str(ComponentText(orch.duration))

(* C29: a run returns continue_dag_run = true, or leaves the record        *)
(* stamped COMPLETED, only if the transfer capability was invoked and      *)
(* returned normally.                                                      *)
C29_CompletedOnlyAfterANormalTransfer ==
    /\ (Returned(orch) /\ orch.result.continue_dag_run)
         => Called(orch, "transfer_func", "ok")
    /\ (Finalized(orch) /\ Status(orch.record, orch.process_type) = "COMPLETED")
         => Called(orch, "transfer_func", "ok")

-----------------------------------------------------------------------------
(* One launch per record, one call per collaborator                        *)

(* the call log of the orchestrator in every worker a batch can start      *)
WorkerCalls ==
    [msg \in DispatchMessages, env \in WorkerEnvs, dir_ok \in BOOLEAN |->
        RunWorker(WorkerEnter(msg, dir_ok), env).calls]

(* a call log without a second attempt: the transfer, the cleanup and the  *)
(* alert are called at most once, and the store is asked at most once to   *)
(* persist a given stamp                                                   *)
NoSecondAttempt(calls) ==
    /\ \A fn \in {"transfer_func", "cleanup_func", "send_mail_alert"} :
         Cardinality({i \in 1..Len(calls) : calls[i].fn = fn}) <= 1
    /\ \A i, k \in 1..Len(calls) :
         (i # k /\ calls[i].fn = calls[k].fn) => calls[i].status # calls[k].status
    /\ \A i \in 1..Len(calls) :
         (calls[i].status \in {"COMPLETED", "FAILED"} /\ calls[i].out = "exc")
           => i = Len(calls)

WorkersMakeNoSecondAttempt ==
    \A msg \in DispatchMessages, env \in WorkerEnvs, dir_ok \in BOOLEAN :
        NoSecondAttempt(WorkerCalls[msg, env, dir_ok])

C25_TallyCountsCrashesApart ==
    disp.summary.made =>
        /\ disp.success = Cardinality({n \in 1..N : disp.lines[n].status = "SUCCESS"})
        /\ disp.fail = Cardinality({n \in 1..N : disp.lines[n].status = "FAILED"})

(* C27: while a batch runs, the worker of job j holds record j of the      *)
(* batch and no other record, for as long as the process exists; so two    *)
(* different workers hold two different records of the batch, and in a     *)
(* batch of distinct records no record is held by two workers.             *)
Holds(j) == procs[j].pc # "none" /\ procs[j].attached

C30_NoWorkerRunsWhenDirectoryIsRemoved ==
    [][(disp.pc = "finally" /\ disp'.pc = "done")
         => \A j \in Jobs : procs[j].pc # "running"]_vars

-----------------------------------------------------------------------------
(* One record moved by generic_transfer_orchestrator and one record        *)
(* reconciled by audit_counts: two independent calls, each with its own    *)
(* error collection                                                        *)

InitErrors ==
    /\ orch \in {OrchEnter(c, r, "src_to_stg", Seconds(90061, 500000)) :
                   c \in TimezoneSettings, r \in {FreshRecord, RerunRecord}}
    /\ audit \in {AuditEnter(AuditRecord)}
    /\ disp = NoDispatch
    /\ fs = NoFiles
    /\ procs = [j \in Jobs |-> NoProcess]
    /\ ctl = NoControl
    /\ worker = NoWorker

NextErrors ==
    \/ GetTimezone
    \/ StampRunning
    \/ Transfer
    \/ Cleanup
    \/ Finalize
    \/ Alert
    \/ SourceProbe
    \/ TargetProbe
    \/ AuditVerdict
    \/ AuditPersist

SpecErrors == InitErrors /\ [][NextErrors]_vars

(* the entries the failed sub-operations of a run call for, in the order   *)
(* in which the failures happened                                          *)
Discovered(s) ==
    LET failed == SelectSeq(s.calls, LAMBDA c :
                      /\ c.out = "exc"
                      /\ \/ c.fn \in {"transfer_func", "cleanup_func"}
                         \/ (c.fn = "update_record_details_in_drive_table"
                               /\ c.status = "RUNNING"))
    IN  [i \in 1..Len(failed) |->
            CASE failed[i].fn = "transfer_func" -> "Transfer Error"
              [] failed[i].fn = "cleanup_func"  -> "Cleanup Error"
              [] OTHER                          -> "Critical Error"]

AuditDiscovered(a) ==
    (IF ProbeFailed(a, "source") THEN <<"Source count error">> ELSE <<>>)
      \o (IF ProbeFailed(a, "target") THEN <<"Target count error">> ELSE <<>>)
      \o (IF a.audit_result = "MISMATCH" THEN <<"Counts do not match for record">> ELSE <<>>)

NumberedKeys == <<"error01", "error02", "error03">>

(* C26: at every moment of a run of generic_transfer_orchestrator and of   *)
(* audit_counts, and in the envelope returned, the error collection has    *)
(* one entry per failure discovered so far, in the order of discovery,     *)
(* under the keys error01, error02, ... without a gap.                     *)
C26_ErrorKeysNumberedInDiscoveryOrder ==
    /\ ErrorTags(orch.error_dict) = Discovered(orch)
    /\ ErrorKeys(orch.error_dict) = SubSeq(NumberedKeys, 1, Len(orch.error_dict))
    /\ orch.error_count = Len(orch.error_dict)
    /\ (Returned(orch) /\ ~orch.result.continue_dag_run)
         => orch.result.error = V_Err(orch.error_dict)
    /\ ErrorTags(audit.errors) = AuditDiscovered(audit)
    /\ ErrorKeys(audit.errors) = SubSeq(NumberedKeys, 1, Len(audit.errors))
    /\ audit.err_idx = Len(audit.errors)
    /\ (AuditReturned(audit) /\ audit.errors # <<>>)
         => audit.result.error = V_Err(audit.errors)

C26_Witness ==
    /\ Returned(orch)
    /\ ErrorTags(orch.result.error.e) = <<"Critical Error", "Cleanup Error">>
    /\ AuditReturned(audit)
    /\ Len(audit.result.error.e) = 2

-----------------------------------------------------------------------------
(* The result file after the orchestrator's envelope is in it              *)

(* C31: once a worker has written the orchestrator's envelope to           *)
(* result_path, the file stays that envelope for the rest of the worker's  *)
(* life (a kill apart), so that a worker whose orchestrator returned       *)
(* continue_dag_run = true leaves a file the dispatcher reads as SUCCESS.  *)
C31_WrittenEnvelopeIsNeverReplaced ==
    (EnvelopeWritten(worker) /\ ~WasKilled(worker))
    => /\ worker.file = Json(worker.envelope.continue_dag_run, worker.envelope.error)
       /\ (WorkerExited(worker) /\ worker.envelope.continue_dag_run)
            => Classify(worker.file) = "SUCCESS"

-----------------------------------------------------------------------------
(* The order of the FAILED path                                            *)

(* C32: a run that has failed and has ended made, as its last three calls  *)
(* and in this order, the cleanup attempt, one persist of the record       *)
(* stamped FAILED (with its end timestamp, its duration and the whole      *)
(* error collection as <process_type>_error) and one alert attempt; the    *)
(* collection stamped is the one returned.                                 *)
C32_FailedPathOrder ==
    (Ended(orch) /\ orch.process_failed) =>
      LET c == orch.calls
          n == Len(orch.calls)
          p == orch.process_type
      IN  /\ n >= 3
          /\ c[n - 2].fn = "cleanup_func" /\ c[n - 2].status = "RUNNING"
          /\ c[n - 1].fn = "rest_record_details_in_drive_table" /\ c[n - 1].status = "FAILED"
          /\ c[n].fn = "send_mail_alert" /\ c[n].status = "FAILED"
          /\ \A i \in 1..(n - 3) : c[i].status \notin {"FAILED", "COMPLETED"}
          /\ Status(orch.record, p) = "FAILED"
          /\ Field(orch.record, Key(p, "_ended_at")) = V_Str("t1@" \o orch.tz)
          /\ Field(orch.record, Key(p, "_duration_str")) = V_Str(format_duration(orch.duration))
          /\ Field(orch.record, Key(p, "_error")) = V_Err(orch.error_dict)
          /\ Returned(orch)
          /\ orch.result.error = V_Err(orch.error_dict)

-----------------------------------------------------------------------------
(* The RUNNING stamp comes first                                           *)

(* the zone the start timestamp is to be taken in: the configured one, UTC *)
(* when the key is missing or the name is unknown                          *)
ConfiguredZone(setting) ==
    IF setting \in {"<missing>", "Mars/Olympus"} THEN "UTC" ELSE setting

(* C33: when the transfer capability is about to be invoked, or has been,  *)
(* the first call of the run was a persist of the record stamped RUNNING   *)
(* that returned normally, the transfer is the call right after it, and    *)
(* the record carries a start timestamp taken in the configured timezone,  *)
(* UTC when the timezone key is missing or names an unknown zone.          *)
C33_RunningStampedAndPersistedBeforeTransfer ==
    (orch.pc = "transfer" \/ CallsTo(orch, "transfer_func") # {}) =>
      /\ Len(orch.calls) >= 1
      /\ orch.calls[1] = [fn |-> "update_record_details_in_drive_table",
                          out |-> "ok", status |-> "RUNNING"]
      /\ CallsTo(orch, "transfer_func") \subseteq {2}
      /\ \A i \in CallsTo(orch, "transfer_func") : orch.calls[i].status = "RUNNING"
      /\ Field(orch.record, Key(orch.process_type, "_started_at"))
           = V_Str("t0@" \o ConfiguredZone(orch.config))

C33_Witness ==
    /\ Returned(orch)
    /\ orch.config = "Mars/Olympus"
    /\ Called(orch, "transfer_func", "exc")
    /\ Field(orch.record, Key(orch.process_type, "_started_at")) = V_Str("t0@UTC")

-----------------------------------------------------------------------------
(* The paths of a batch                                                    *)

Paths(job) == {job.result_path, job.stdout_log_path, job.stderr_log_path}

-----------------------------------------------------------------------------
(* A dispatch whose workers all terminate                                  *)

(* the steps of the dispatching process *)
DispatcherStep ==
    \/ EnterDag
    \/ EnterMain
    \/ SetupJobDirectory
    \/ Launch
    \/ Wait
    \/ Summarize
    \/ SummarizeReturn
    \/ FinallyRmtree

(* The dispatching process keeps running, and every worker that was        *)
(* started terminates: there is no timeout and no cancellation, so this is *)
(* what the end of a dispatch depends on.                                  *)
SpecLive ==
    /\ Init
    /\ [][Next]_vars
    /\ WF_vars(DispatcherStep)
    /\ \A j \in Jobs : WF_vars(WorkerRun(j))

(* C35: when every worker that was started terminates and no call to the   *)
(* operating system fails, a call of run_generic_parallel_jobs eventually  *)
(* ends by returning its aggregate result.                                 *)
C35_DispatchReturnsItsAggregate ==
    (disp.entry = "run_generic_parallel_jobs")
    => <>(/\ disp.pc = "done"
          /\ \/ disp.outcome.kind = "returned"
             \/ disp.outcome.exc \in {"os.makedirs", "subprocess.Popen", "stdin.write"})

-----------------------------------------------------------------------------
(* The status of the record and the envelope                               *)

PhaseStatus(s) == Status(s.record, s.process_type)

(* C36: whenever generic_transfer_orchestrator has returned, the record's  *)
(* <process_type>_status is COMPLETED if continue_dag_run is true and      *)
(* FAILED if it is false, never RUNNING; and during a run the status       *)
(* changes only twice: to RUNNING at the first stamp, whatever an earlier  *)
(* run left there, and from RUNNING to COMPLETED or FAILED at the terminal *)
(* stamp, after which it is not changed again.                             *)
C36_StatusAgreesWithEnvelope ==
    /\ [](Returned(orch) =>
            /\ PhaseStatus(orch) \in {"COMPLETED", "FAILED"}
            /\ PhaseStatus(orch) = "COMPLETED" <=> orch.result.continue_dag_run
            /\ PhaseStatus(orch) = "FAILED" <=> ~orch.result.continue_dag_run)
    /\ [](orch.pc \in {"transfer", "cleanup", "finalize"} => PhaseStatus(orch) = "RUNNING")
    /\ [][PhaseStatus(orch') # PhaseStatus(orch) =>
            \/ (orch.pc = "stamp_running" /\ PhaseStatus(orch') = "RUNNING")
            \/ (orch.pc = "finalize" /\ PhaseStatus(orch) = "RUNNING"
                  /\ PhaseStatus(orch') \in {"COMPLETED", "FAILED"})]_vars

C36_Witness ==
    /\ Returned(orch)
    /\ PhaseStatus(orch) = "FAILED"
    /\ ~orch.result.continue_dag_run
    /\ Called(orch, "cleanup_func", "ok")
    /\ orch.record["id"] = V_Str("record_fail_002")

-----------------------------------------------------------------------------
(* What a dispatch leaves of its inputs                                    *)

(* C37: no step of a dispatch, of the dispatcher or of a worker, changes   *)
(* the caller's config, the records list or a record in it; a worker is    *)
(* handed a copy of its record and of the config as the caller holds them. *)
C37_InputsUnchanged ==
    /\ [][disp'.args = disp.args]_vars
    /\ [](\A j \in Jobs : (procs[j].pc # "none" /\ procs[j].attached) =>
            /\ procs[j].msg.record = disp.args.records[j]
            /\ procs[j].msg.config = disp.args.config)

C37_Witness ==
    /\ disp.pc = "done"
    /\ N = MaxJobs
    /\ Len(disp.lines) = N
    /\ \A n \in 1..N : disp.lines[n].status \in {"SUCCESS", "FAILED"}
    /\ \E n \in 1..N : disp.lines[n].status = "FAILED"
    /\ disp.args.records[1] = FreshRecord

-----------------------------------------------------------------------------
(* SpecControl: two calls of update_audit_details, each in its own         *)
(* connection, against one tracking table                                  *)

InitControl ==
    /\ ctl \in {[table |-> tb, lock |-> "",
                 calls |-> [c \in Callers |-> AuditDetailsEnter(ids[c], AuditObject(c))]] :
                  tb \in [TrackingIds -> Cells], ids \in [Callers -> TrackingArgs]}
    /\ orch = Idle
    /\ disp = NoDispatch
    /\ fs = NoFiles
    /\ procs = [j \in Jobs |-> NoProcess]
    /\ audit = NoAudit
    /\ worker = NoWorker

AuditDetailsValidate ==
    /\ \E c \in Callers :
         /\ ctl.calls[c].pc = "validate"
         /\ ctl' = StepValidate(ctl, c)
    /\ UNCHANGED <<orch, disp, fs, procs, audit, worker>>

AuditDetailsConnect ==
    /\ \E c \in Callers, out \in Outcomes :
         /\ ctl.calls[c].pc = "connect"
         /\ ctl' = StepConnect(ctl, c, out)
    /\ UNCHANGED <<orch, disp, fs, procs, audit, worker>>

AuditDetailsSelect ==
    /\ \E c \in Callers, out \in Outcomes :
         /\ ctl.calls[c].pc = "select"
         /\ ctl' = StepSelect(ctl, c, out)
    /\ UNCHANGED <<orch, disp, fs, procs, audit, worker>>

(* the UPDATE runs when no other transaction holds the lock; until then it *)
(* waits, and it may give up with an error (a lock timeout)                *)
AuditDetailsUpdate ==
    /\ \E c \in Callers, out \in Outcomes :
         /\ ctl.calls[c].pc = "update"
         /\ out = "ok" => ctl.lock = ""
         /\ ctl' = StepUpdate(ctl, c, out)
    /\ UNCHANGED <<orch, disp, fs, procs, audit, worker>>

AuditDetailsCommit ==
    /\ \E c \in Callers, out \in Outcomes :
         /\ ctl.calls[c].pc = "commit"
         /\ ctl' = StepCommit(ctl, c, out)
    /\ UNCHANGED <<orch, disp, fs, procs, audit, worker>>

AuditDetailsClose ==
    /\ \E c \in Callers :
         /\ ctl.calls[c].pc = "close"
         /\ ctl' = StepClose(ctl, c)
    /\ UNCHANGED <<orch, disp, fs, procs, audit, worker>>

NextControl ==
    \/ AuditDetailsValidate
    \/ AuditDetailsConnect
    \/ AuditDetailsSelect
    \/ AuditDetailsUpdate
    \/ AuditDetailsCommit
    \/ AuditDetailsClose

SpecControl == InitControl /\ [][NextControl]_vars

Appended(c) ==
    /\ ctl.calls[c].return_val.returned
    /\ ctl.calls[c].return_val.continue_dag_run

Contains(items, x) == \E i \in 1..Len(items) : items[i] = x

(* C38: once a call of update_audit_details has returned continue_dag_run  *)
(* = true, its audit object is in the stored AUDIT_DETAILS list of its     *)
(* TRACKING_ID and stays there, whatever another call does concurrently;   *)
(* in particular after two such calls for the same TRACKING_ID the list    *)
(* holds both objects.                                                     *)
C38_NoAppendIsLost ==
    \A c \in Callers :
        Appended(c) =>
            /\ ctl.table[ctl.calls[c].tracking_id].kind = "list"
            /\ Contains(ctl.table[ctl.calls[c].tracking_id].items, ctl.calls[c].audit_object)

====
